---------------------------- MODULE Spec2Model ----------------------------
(***************************************************************************)
(* Verification model of the statistical engine of the semantic-drift      *)
(* analysis toolkit: multiple-comparison correction                        *)
(* (comparative_analysis.py), stochastic-resonance detection               *)
(* (stochastic_resonance.py), the report generators, the result loaders    *)
(* and the sources of pseudo-randomness.                                   *)
(*                                                                         *)
(* Each group of operations has its own specification (SpecCorr, SpecSR,   *)
(* ...).  A specification moves only the variables of its group and keeps  *)
(* the variables of the other groups at their idle value.                  *)
(***************************************************************************)
EXTENDS Integers, Sequences, FiniteSets, TLC

VARIABLES
    p_values,        \* _apply_correction: the raw p-values (argument)
    method,          \* _apply_correction: the method of the last call
    corrected,       \* _apply_correction: the list returned by the last call
    text_similarities, \* StochasticResonanceDetector.results["text_similarities"]
    sr_result,       \* what detect_stochastic_resonance returned, or NoResult
    generator,       \* the report generator that is called
    outcomes,        \* what each analysis the generator calls does
    report,          \* the dict the generator returned, or NoReport
    report_file,     \* the tokens json.dump wrote per key, or NoFile
    gen_status,      \* "not called", "returned" or "raised"
    results_file,    \* data_path / "analysis_results_local.json": absent or its text
    analyzers,       \* per analyzer class, what its constructor did
    global_rng,      \* the state of numpy's global generator (np.random)
    invocations,     \* the analyses called so far with what they returned
    results,         \* self.results of the analyzer the analyses are called on
    call,            \* the operation that is called, with its arguments
    returned,        \* what the call returned or raised, or NotReturned
    healer,          \* SelfHealingTranslator: confidence_threshold, max_iterations
    estimator,       \* what estimate_confidence, detect_errors and the strategies give per text
    heal_pc,         \* position in heal_translation
    heal_call,       \* the heal_translation call on this translator: none, first, second
    translated_text, \* argument of the running call
    current_text,    \* local of heal_translation
    iteration,       \* loop index of heal_translation
    healing_history, \* self.healing_history
    successful_corrections,\* local of heal_translation
    initial_confidence,\* local of heal_translation
    healing_report,  \* the SelfHealingReport last returned
    trackers,        \* the CostTracker objects created so far, each with enabled and calls
    global_tracker,  \* cost_tracker._tracker: the position in trackers of the global tracker
    pipeline_tracker,\* pipeline.cost_tracker: the position in trackers bound at import
    summary,         \* what the last get_summary() on the global tracker returned or raised
    chain_runs,      \* run_translation_chain runs started in this process
    printed          \* the 'Cost for this run' lines printed, with the calls of their run

corrVars == <<p_values, method, corrected>>
srVars == <<text_similarities, sr_result>>
reportVars == <<generator, outcomes, report, report_file, gen_status>>
loadVars == <<results_file, analyzers>>
randVars == <<global_rng, invocations, results>>
callVars == <<call, returned>>
healVars == <<healer, estimator, heal_pc, heal_call, translated_text, current_text, iteration, healing_history, successful_corrections, initial_confidence, healing_report>>
costVars == <<trackers, global_tracker, pipeline_tracker, summary, chain_runs, printed>>
vars == <<corrVars, srVars, reportVars, loadVars, randVars, callVars, healVars, costVars>>

(***************************************************************************)
(* Bounds                                                                  *)
(***************************************************************************)
\* longest list of p-values handed to _apply_correction
MaxM == 3
\* significand width of the binary floating-point format (float64 has 53)
FloatBits == 3
\* how many of the configured noise levels an experiment may contain
MaxLevels == 4
\* longest text of a results file, in tokens
MaxFileLen == 2
\* how many states the model of a random generator has
RngModulus == 8
\* how many values an analysis draws
DrawsPerCall == 2
\* how many analyses are invoked in one behaviour
MaxCalls == 2
\* most values in the sample bootstrap_analysis resamples
MaxDistances == 3
\* how many resamples are drawn (n_iterations, and the 1000 perturbations)
MaxIterations == 3
\* most noise levels correlation_analysis correlates
MaxPoints == 6

(***************************************************************************)
(* Generic helpers                                                         *)
(***************************************************************************)
Min2(a, b) == IF a <= b THEN a ELSE b
Max2(a, b) == IF a >= b THEN a ELSE b

RECURSIVE Pow2(_)
Pow2(n) == IF n = 0 THEN 1 ELSE 2 * Pow2(n - 1)

\* all sequences over S of length 0..n
SeqsUpTo(S, n) == UNION { [1..k -> S] : k \in 0..n }

(***************************************************************************)
(* Floating point.  numpy float64 arithmetic is IEEE-754 binary with       *)
(* round-to-nearest, ties-to-even.  The model keeps the format and the     *)
(* rounding and narrows the significand to FloatBits bits.  A value is a   *)
(* non-negative integer counted in units of the smallest positive number   *)
(* of the format; One is the value 1.0.                                    *)
(***************************************************************************)
One == Pow2(FloatBits)

\* the spacing of the format around the rational n/d
RECURSIVE Quantum(_, _, _)
Quantum(n, d, q) ==
    IF n < Pow2(FloatBits) * q * d THEN q ELSE Quantum(n, d, 2 * q)

\* n/d rounded to an integer, ties to even
RoundHalfEven(n, d) ==
    LET k == n \div d
        r == n % d
    IN  IF 2 * r < d THEN k
        ELSE IF 2 * r > d THEN k + 1
        ELSE IF k % 2 = 0 THEN k ELSE k + 1

\* the floating-point number nearest to the rational n/d
Fl(n, d) ==
    LET q == Quantum(n, d, 1)
    IN  q * RoundHalfEven(n, d * q)

\* x * k and x / k for a float x and an integer k, as numpy computes them
FMul(x, k) == Fl(x * k, 1)
FDiv(x, k) == Fl(x, k)

\* the raw p-values: every float in [0, 1]
PValues == 0..One

(***************************************************************************)
(* ComparativeAnalyzer._apply_correction                                   *)
(***************************************************************************)
Methods == {"bonferroni", "holm", "fdr_bh", "none"}
NotRun == <<-1>>
Raised == <<-2>>

\* np.argsort(p_array): an ordering of the positions by ascending value.
\* The default sort is not stable, so positions of equal values may come
\* in either order.
RECURSIVE SortOrders(_, _)
SortOrders(p, rest) ==
    IF rest = {} THEN {<<>>}
    ELSE UNION { { <<i>> \o s : s \in SortOrders(p, rest \ {i}) } :
                 i \in { k \in rest : \A l \in rest : p[k] <= p[l] } }

ArgSorts(p) == SortOrders(p, 1..Len(p))

\* corrected[sorted_indices] = corrected_sorted
Unsort(cs, idx) ==
    [k \in 1..Len(cs) |-> cs[CHOOSE i \in 1..Len(cs) : idx[i] = k]]

\* bonferroni: np.minimum(p_array * m, 1.0)
Bonferroni(p) ==
    [k \in 1..Len(p) |-> Min2(FMul(p[k], Len(p)), One)]

\* holm, first loop: min(sorted_p[i] * (m - i), 1.0), i counted from 0
HolmScale(x, m, i) == Min2(FMul(x, m - i), One)

\* holm with the monotonicity loop left out
HolmMonotone_Skipped(cs, j) == cs

\* holm, second loop: corrected_sorted[i] = max(corrected_sorted[i],
\* corrected_sorted[i-1]) for i = 1..m-1 in ascending order
RECURSIVE HolmMonotone(_, _)
HolmMonotone(cs, j) ==
    IF j = 0 THEN <<>>
    ELSE IF j = 1 THEN <<cs[1]>>
    ELSE LET prev == HolmMonotone(cs, j - 1)
         IN  Append(prev, Max2(cs[j], prev[j - 1]))

Holm(p, idx) ==
    LET m == Len(p)
        scaled == [j \in 1..m |-> HolmScale(p[idx[j]], m, j - 1)]
    IN  Unsort(HolmMonotone(scaled, m), idx)

\* fdr_bh multiplying by the rank instead of dividing by it
FdrScale_TimesRank(x, m, i) == FMul(FMul(x, m), i + 1)

\* fdr_bh: sorted_p * m / (np.arange(m) + 1), i counted from 0
FdrScale(x, m, i) == FDiv(FMul(x, m), i + 1)

\* fdr_bh, backward loop: corrected_sorted[i] = min(corrected_sorted[i],
\* corrected_sorted[i+1]) for i = m-2 down to 0
RECURSIVE FdrMonotone(_, _)
FdrMonotone(cs, j) ==
    IF j > Len(cs) THEN <<>>
    ELSE IF j = Len(cs) THEN <<cs[j]>>
    ELSE LET rest == FdrMonotone(cs, j + 1)
         IN  <<Min2(cs[j], rest[1])>> \o rest

Fdr(p, idx) ==
    LET m == Len(p)
        scaled == [j \in 1..m |-> Min2(FdrScale(p[idx[j]], m, j - 1), One)]
    IN  Unsort(FdrMonotone(scaled, 1), idx)

\* _apply_correction(p_values, method) for the sort order idx
ApplyCorrectionResult(p, meth, idx) ==
    CASE meth = "bonferroni" -> Bonferroni(p)
      [] meth = "holm"       -> Holm(p, idx)
      [] meth = "fdr_bh"     -> Fdr(p, idx)
      [] meth = "none"       -> p
      [] OTHER                 -> Raised

InitCorr ==
    /\ p_values \in SeqsUpTo(PValues, MaxM)
    /\ method = "not called"
    /\ corrected = NotRun

IdleCorr ==
    /\ p_values = <<>>
    /\ method = "not called"
    /\ corrected = NotRun

\* one call _apply_correction(p_values, meth); a name outside Methods
\* raises ValueError.  The function keeps no state, so a behaviour is one
\* call on one input.
ApplyCorrection(meth) ==
    /\ method = "not called"
    /\ \E idx \in ArgSorts(p_values) :
         corrected' = ApplyCorrectionResult(p_values, meth, idx)
    /\ method' = meth
    /\ UNCHANGED p_values
    /\ UNCHANGED <<srVars, reportVars, loadVars, randVars, callVars, healVars, costVars>>

NextCorr ==
    \E meth \in Methods \cup {"unknown"} : ApplyCorrection(meth)

(***************************************************************************)
(* StochasticResonanceDetector                                             *)
(*                                                                         *)
(* Similarities are counted in tenths (0..10) and noise levels are the     *)
(* configured percentages, all multiples of 5.  With s in tenths and       *)
(* n = 5k percent,                                                         *)
(*     signal_power = s^2/100            = 40 s^2 / 4000                   *)
(*     noise_power  = (1-s/10)^2 + (n/100)^2 * 0.1                         *)
(*                  = (40 (10-s)^2 + k^2) / 4000                           *)
(* so both powers are integers in units of 1/4000.                         *)
(***************************************************************************)
NOISE_LEVELS == <<0, 10, 20, 25, 30, 40, 50>>
Levels == { NOISE_LEVELS[i] : i \in 1..Min2(MaxLevels, Len(NOISE_LEVELS)) }
Sims == 0..10
NoResult == [kind |-> "none"]

\* sorted(text_similarities.items(), key=lambda x: int(x[0])): the noise
\* levels in ascending order
RECURSIVE SortedLevels(_)
SortedLevels(S) ==
    IF S = {} THEN <<>>
    ELSE LET lo == CHOOSE x \in S : \A y \in S : x <= y
         IN  <<lo>> \o SortedLevels(S \ {lo})

\* calculate_snr.  The value returned is 10*log10(signal/noise); the model
\* keeps the two powers.  floored records that noise_power was raised to
\* 1e-10 by max(noise_power, 1e-10), which happens exactly when it is 0.
CalculateSnr(noise_level, similarity) ==
    LET signal_power == 40 * similarity * similarity
        translation_noise == 40 * (10 - similarity) * (10 - similarity)
        input_noise_effect == (noise_level \div 5) * (noise_level \div 5)
        noise_power == translation_noise + input_noise_effect
    IN  [sig |-> signal_power, noi |-> noise_power, floored |-> (noise_power = 0)]

\* a > b for two decibel values.  log10 is strictly increasing, so the
\* order of the decibel values is the order of the power ratios.  A floored
\* value has ratio signal/1e-10 with signal = 1, which is 1e10 and above
\* every other ratio (at most 4000).
SnrGreater(a, b) ==
    IF a.floored THEN ~b.floored
    ELSE IF b.floored THEN FALSE
    ELSE a.sig * b.noi > b.sig * a.noi

\* snr > 0: the ratio is above 1
SnrPositive(a) == a.floored \/ a.sig > a.noi

\* np.argmax: the first position holding the largest value (1-based here)
RECURSIVE ArgMax(_, _)
ArgMax(snr, n) ==
    IF n = 1 THEN 1
    ELSE LET best == ArgMax(snr, n - 1)
         IN  IF SnrGreater(snr[n], snr[best]) THEN n ELSE best

\* sr_gain = max_snr / snr_at_zero if snr_at_zero > 0 else 1.0, compared
\* with 1.0: a quotient of two positive decibel values exceeds 1 exactly
\* when the numerator is the larger
SrGainAboveOne(max_snr, snr_at_zero) ==
    IF SnrPositive(snr_at_zero) THEN SnrGreater(max_snr, snr_at_zero) ELSE FALSE

\* sr_detected = optimal_noise > 0 and sr_gain > 1.0
SrDetected(optimal_noise, max_snr, snr_at_zero) ==
    optimal_noise > 0 /\ SrGainAboveOne(max_snr, snr_at_zero)

SnrValues(ts) ==
    LET noise_levels == SortedLevels(DOMAIN ts)
    IN  [i \in 1..Len(noise_levels) |-> CalculateSnr(noise_levels[i], ts[noise_levels[i]])]

\* detect_stochastic_resonance: the fields decided by the SNR series
DetectResult(ts) ==
    LET noise_levels == SortedLevels(DOMAIN ts)
        snr_values == SnrValues(ts)
    IN  IF Len(noise_levels) < 3
        THEN [kind |-> "insufficient", sr_detected |-> FALSE,
              optimal_noise_level |-> 0, max_snr_idx |-> 0]
        ELSE LET max_snr_idx == ArgMax(snr_values, Len(snr_values))
                 optimal_noise == noise_levels[max_snr_idx]
             IN  [kind |-> "result",
                  sr_detected |-> SrDetected(optimal_noise,
                                             snr_values[max_snr_idx], snr_values[1]),
                  optimal_noise_level |-> optimal_noise,
                  max_snr_idx |-> max_snr_idx]

\* the loaded experiment: a similarity for each noise level it contains
SimilarityMaps == UNION { [S -> Sims] : S \in SUBSET Levels }

InitSR ==
    /\ text_similarities \in SimilarityMaps
    /\ sr_result = NoResult

IdleSR ==
    /\ text_similarities = << >>
    /\ sr_result = NoResult

DetectStochasticResonance ==
    /\ sr_result = NoResult
    /\ sr_result' = DetectResult(text_similarities)
    /\ UNCHANGED text_similarities
    /\ UNCHANGED <<corrVars, reportVars, loadVars, randVars, callVars, healVars, costVars>>

NextSR == DetectStochasticResonance

(***************************************************************************)
(* Report generators                                                       *)
(*                                                                         *)
(* A generator runs its analyses one after the other, each inside          *)
(* try/except, collects what they return in a dict and writes the dict     *)
(* with json.dump.  An analysis is an input of the model: it raises, or it *)
(* returns an object whose floating values are described by leaves.  A     *)
(* leaf records the type of the value (Python float or numpy float64),     *)
(* whether it is finite, NaN or an infinity, and whether it sits inside a  *)
(* tuple.                                                                  *)
(***************************************************************************)
Leaf(num, val, tup) == [num |-> num, val |-> val, tuple |-> tup]
PyFinite == Leaf("float", "finite", FALSE)
NoneLeaf == Leaf("None", "none", FALSE)
PyBool == Leaf("bool", "true", FALSE)
NpBool == Leaf("np.bool_", "true", FALSE)
NonFinite == {"nan", "inf", "-inf"}

\* an analysis that returned an object, raised exc, or was not run
Returned(leaves) == [status |-> "ok", exc |-> "", leaves |-> leaves]
Raising(exc) == [status |-> "raised", exc |-> exc, leaves |-> {}]
Skipped == [status |-> "skipped", exc |-> "", leaves |-> {}]
\* AnalysisError: sensitivity_analysis.py line 376;  KeyError: a results
\* file without "original_sentence", sensitivity_analysis.py line 145
Exceptions == {"AnalysisError", "KeyError"}
Failures == { Raising(e) : e \in Exceptions }

\* what each analysis can return
\* detect_stochastic_resonance: floats, a tuple of floats, and -inf for
\* snr_at_zero when the similarity at the first level is 0 (log10(0))
DetectLeaves ==
    { {PyFinite, Leaf("float", "finite", TRUE)},
      {PyFinite, Leaf("float", "finite", TRUE), Leaf("float", "-inf", FALSE)} }
\* analyze_snr_curve: lists of floats; -inf in snr_values gives nan in the
\* gradients
CurveLeaves ==
    { {PyFinite}, {PyFinite, Leaf("float", "-inf", FALSE), Leaf("float", "nan", FALSE)} }
\* model_attention_threshold
ThresholdLeaves == { {PyFinite} }
\* analyze_noise_levels: float(np.corrcoef(...)[0, 1]) is nan when the
\* normalized MI is the same at every level
NoiseAnalysisLeaves == { {PyFinite}, {PyFinite, Leaf("float", "nan", FALSE)} }
\* information_bottleneck_analysis: optimal_beta is capped at 100
BottleneckLeaves == { {PyFinite} }
\* pairwise_comparisons
PairwiseLeaves == { {PyFinite} }
\* correlation_analysis: Kendall's confidence_interval is (np.nan, np.nan)
CorrelationLeaves == { {PyFinite, Leaf("float", "nan", TRUE)} }
\* regression_analysis: f_statistic is float(np.inf) when r_squared is 1
RegressionLeaves == { {PyFinite}, {PyFinite, Leaf("float", "inf", FALSE)} }
\* diagnostic_tests: nothing when every test fails inside its own try;
\* otherwise statistics, p-values and the flags `p > 0.05`: p_levene and
\* p_bartlett are numpy floats, so their flags are numpy booleans, and
\* whether shapiro's p is a float or a numpy float depends on the library
DiagnosticLeaves == { {}, {PyFinite, PyBool}, {PyFinite, NpBool} }
\* embedding_dimension_sensitivity, ngram_range_sensitivity: means, stds
\* and interval bounds are numpy values; a single distance gives nan for
\* np.std(ddof=1) and for the interval
SensitivityLeaves ==
    { {PyFinite, Leaf("np.float64", "finite", FALSE)},
      {PyFinite, Leaf("np.float64", "finite", FALSE), Leaf("np.float64", "nan", FALSE)} }
\* bootstrap_analysis, cohens_d_effect_size
PlainLeaves == { {PyFinite} }
\* anova_multi_factor: f_oneway on constant groups gives nan
AnovaLeaves == { {PyFinite}, {PyFinite, Leaf("float", "nan", FALSE)} }

\* entries of a report: the object of an analysis, an error string, a
\* dict of further entries, or the metadata
ResultsEntry(leaves) == [kind |-> "results", leaves |-> leaves, parts |-> << >>]
ErrorEntry == [kind |-> "error", leaves |-> {}, parts |-> << >>]
ErrorObject == [kind |-> "error_object", leaves |-> {}, parts |-> << >>]
Section(parts) == [kind |-> "section", leaves |-> {}, parts |-> parts]
Metadata == [kind |-> "metadata", leaves |-> {}, parts |-> << >>]

\* d[key] = entry
Put(d, key, entry) ==
    [k \in DOMAIN d \cup {key} |-> IF k = key THEN entry ELSE d[k]]

\* convert_numpy_types on one value: dicts and lists are descended, a
\* numpy float becomes None when it is NaN or infinite and a float
\* otherwise; anything else, a Python float or a tuple, is returned as is
ConvertLeaf(l) ==
    IF l.tuple THEN l
    ELSE CASE l.num = "np.float64" ->
                IF l.val \in NonFinite THEN NoneLeaf ELSE Leaf("float", l.val, FALSE)
           [] l.num = "np.bool_" -> Leaf("bool", l.val, FALSE)
           [] OTHER -> l

ConvertEntry(e) == [e EXCEPT !.leaves = { ConvertLeaf(l) : l \in @ }]

ConvertNumpyTypes(rep) ==
    [k \in DOMAIN rep |->
        LET e == rep[k]
        IN  IF e.kind = "section"
            THEN Section([p \in DOMAIN e.parts |-> ConvertEntry(e.parts[p])])
            ELSE ConvertEntry(e)]

\* json.dump (allow_nan is True in every call, by argument or by default):
\* the token written for a value.  numpy float64 is a subclass of float and
\* is written like one; a numpy boolean is no type the encoder knows and
\* makes it raise TypeError.
DumpLeaf(l) ==
    CASE l.num = "None" -> "null"
      [] l.num = "bool" -> l.val
      [] l.num = "np.bool_" -> "TypeError"
      [] l.val = "finite" -> "number"
      [] l.val = "nan"    -> "NaN"
      [] l.val = "inf"    -> "Infinity"
      [] l.val = "-inf"   -> "-Infinity"

DumpEntry(e) == { DumpLeaf(l) : l \in e.leaves }

\* the tokens of the written file, per top-level key
JsonDump(rep) ==
    [k \in DOMAIN rep |->
        LET e == rep[k]
        IN  IF e.kind = "section"
            THEN UNION { DumpEntry(e.parts[p]) : p \in DOMAIN e.parts }
            ELSE DumpEntry(e)]

\* json.dump raises on this report
Unserializable(rep) == \E k \in DOMAIN rep : "TypeError" \in JsonDump(rep)[k]

\* what is in the file when json.dump has raised: the encoder writes the
\* keys in order and stops at the value it cannot encode; the only such
\* values are under the last key of a report
PartialDump(rep) ==
    [k \in { x \in DOMAIN rep : "TypeError" \notin JsonDump(rep)[x] } |-> JsonDump(rep)[k]]

\* `except Exception as e` catches whatever the analysis raised
Caught(exc) == exc \in Exceptions

\* the state of a generator while it runs: the dict built so far and
\* whether an exception has left the generator
Running(rep) == [report |-> rep, raised |-> FALSE]

\* try: report[key] = asdict(analysis())
\* except Exception as e: report[errkey] = str(e)
TryTop(st, key, errkey, o) ==
    IF st.raised \/ o.status = "skipped" THEN st
    ELSE IF o.status = "ok" THEN [st EXCEPT !.report = Put(@, key, ResultsEntry(o.leaves))]
    ELSE IF Caught(o.exc) THEN [st EXCEPT !.report = Put(@, errkey, ErrorEntry)]
    ELSE [st EXCEPT !.raised = TRUE]

\* try: report[section][part] = asdict(analysis())
\* except Exception as e: report[section][errpart] = errentry
TryPart(st, section, part, errpart, errentry, o) ==
    IF st.raised \/ o.status = "skipped" THEN st
    ELSE IF o.status = "ok"
         THEN [st EXCEPT !.report[section].parts = Put(@, part, ResultsEntry(o.leaves))]
    ELSE IF Caught(o.exc)
         THEN [st EXCEPT !.report[section].parts = Put(@, errpart, errentry)]
    ELSE [st EXCEPT !.raised = TRUE]

\* report.update(d)
Update(rep, d) ==
    [k \in DOMAIN rep \cup DOMAIN d |-> IF k \in DOMAIN d THEN d[k] ELSE rep[k]]

\* the dict analyze_noise_levels returns; the summary holds the correlation
NoiseAnalysis(leaves) ==
    [k \in {"entropy_analysis", "mutual_information", "kl_divergence", "summary"} |->
        IF k = "summary" THEN ResultsEntry(leaves) ELSE ResultsEntry({PyFinite})]

\* try: report.update(analyze_noise_levels())
\* except Exception as e: report["noise_analysis_error"] = str(e)
TryUpdate(st, o) ==
    IF st.raised \/ o.status = "skipped" THEN st
    ELSE IF o.status = "ok" THEN [st EXCEPT !.report = Update(@, NoiseAnalysis(o.leaves))]
    ELSE IF Caught(o.exc) THEN [st EXCEPT !.report = Put(@, "noise_analysis_error", ErrorEntry)]
    ELSE [st EXCEPT !.raised = TRUE]

Generators == {"stochastic_resonance", "information_theory", "comparative", "sensitivity"}
NoReport == << >>
NoFile == << >>
NoOutcomes == << >>

Outcomes(leafSets) == { Returned(l) : l \in leafSets } \cup Failures

InitStochasticResonanceReport ==
    /\ generator = "stochastic_resonance"
    /\ \E d \in Outcomes(DetectLeaves), c \in Outcomes(CurveLeaves),
          t \in Outcomes(ThresholdLeaves) :
          outcomes = ("stochastic_resonance" :> d) @@ ("snr_curve" :> c)
                        @@ ("attention_threshold" :> t)

\* the bottleneck analysis is run only `if final_outputs:`; without final
\* outputs analyze_noise_levels has no MI values to correlate
InitInformationTheoryReport ==
    /\ generator = "information_theory"
    /\ \E n \in Outcomes(NoiseAnalysisLeaves),
          b \in Outcomes(BottleneckLeaves) \cup {Skipped} :
          /\ b = Skipped => n \in Outcomes({{PyFinite}})
          /\ outcomes = ("noise_analysis" :> n) @@ ("information_bottleneck" :> b)

\* the quadratic regression is run only after the linear one returned;
\* correlation_analysis returns only with two or more noise levels in
\* semantic_distances, and then Levene's test in diagnostic_tests returns
InitComparativeReport ==
    /\ generator = "comparative"
    /\ \E p \in Outcomes(PairwiseLeaves), c \in Outcomes(CorrelationLeaves),
          l \in Outcomes(RegressionLeaves),
          q \in Outcomes(RegressionLeaves) \cup {Skipped},
          d \in Outcomes(DiagnosticLeaves) :
          /\ q = Skipped <=> l.status = "raised"
          /\ c.status = "ok" => NpBool \in d.leaves
          /\ outcomes = ("pairwise_comparisons" :> p) @@ ("correlation_analysis" :> c)
                        @@ ("linear" :> l) @@ ("quadratic" :> q)
                        @@ ("diagnostic_tests" :> d)

InitSensitivityReport ==
    /\ generator = "sensitivity"
    /\ \E e \in Outcomes(SensitivityLeaves), n \in Outcomes(SensitivityLeaves),
          b \in Outcomes(PlainLeaves), a \in Outcomes(AnovaLeaves),
          c \in Outcomes(PlainLeaves) :
          outcomes = ("embedding_dimension" :> e) @@ ("ngram_range" :> n)
                        @@ ("cosine_distance" :> b) @@ ("multi_factor" :> a)
                        @@ ("cohens_d_0_vs_50" :> c)

InitReport ==
    /\ \/ InitStochasticResonanceReport
       \/ InitInformationTheoryReport
       \/ InitComparativeReport
       \/ InitSensitivityReport
    /\ gen_status = "not called"
    /\ report = NoReport
    /\ report_file = NoFile

IdleReport ==
    /\ generator = "none"
    /\ outcomes = NoOutcomes
    /\ gen_status = "not called"
    /\ report = NoReport
    /\ report_file = NoFile

\* the end of generate_stochastic_resonance_report and of
\* generate_information_theory_report: convert, dump, return; what
\* json.dump raises leaves the generator
ConvertAndSave(st) ==
    IF st.raised
    THEN /\ gen_status' = "raised"
         /\ report' = NoReport
         /\ report_file' = NoFile
    ELSE IF Unserializable(ConvertNumpyTypes(st.report))
    THEN /\ gen_status' = "raised"
         /\ report' = NoReport
         /\ report_file' = PartialDump(ConvertNumpyTypes(st.report))
    ELSE /\ gen_status' = "returned"
         /\ report' = ConvertNumpyTypes(st.report)
         /\ report_file' = JsonDump(ConvertNumpyTypes(st.report))

\* the end of generate_comparative_report and of
\* generate_sensitivity_report: dump, return; what json.dump raises is
\* raised again as AnalysisError("Cannot save ... report")
Save(st) ==
    IF st.raised
    THEN /\ gen_status' = "raised"
         /\ report' = NoReport
         /\ report_file' = NoFile
    ELSE IF Unserializable(st.report)
    THEN /\ gen_status' = "raised"
         /\ report' = NoReport
         /\ report_file' = PartialDump(st.report)
    ELSE /\ gen_status' = "returned"
         /\ report' = st.report
         /\ report_file' = JsonDump(st.report)

GenerateStochasticResonanceReport ==
    /\ generator = "stochastic_resonance"
    /\ gen_status = "not called"
    /\ LET s0 == Running("metadata" :> Metadata)
           s1 == TryTop(s0, "stochastic_resonance", "stochastic_resonance_error",
                        outcomes["stochastic_resonance"])
           s2 == TryTop(s1, "snr_curve", "snr_curve_error", outcomes["snr_curve"])
           s3 == TryTop(s2, "attention_threshold", "attention_threshold_error",
                        outcomes["attention_threshold"])
       IN  ConvertAndSave(s3)
    /\ UNCHANGED <<generator, outcomes>>
    /\ UNCHANGED <<corrVars, srVars, loadVars, randVars, callVars, healVars, costVars>>

GenerateInformationTheoryReport ==
    /\ generator = "information_theory"
    /\ gen_status = "not called"
    /\ LET s0 == Running("metadata" :> Metadata)
           s1 == TryUpdate(s0, outcomes["noise_analysis"])
           s2 == TryTop(s1, "information_bottleneck", "information_bottleneck_error",
                        outcomes["information_bottleneck"])
       IN  ConvertAndSave(s2)
    /\ UNCHANGED <<generator, outcomes>>
    /\ UNCHANGED <<corrVars, srVars, loadVars, randVars, callVars, healVars, costVars>>

\* try: diagnostics = self.diagnostic_tests(); report["diagnostic_tests"] = diagnostics
\* except Exception as e: report["diagnostic_tests"]["error"] = str(e)
TryDiagnostics(st, o) ==
    IF st.raised THEN st
    ELSE IF o.status = "ok"
         THEN [st EXCEPT !.report = Put(@, "diagnostic_tests", ResultsEntry(o.leaves))]
    ELSE IF Caught(o.exc)
         THEN [st EXCEPT !.report["diagnostic_tests"].parts = Put(@, "error", ErrorEntry)]
    ELSE [st EXCEPT !.raised = TRUE]

GenerateComparativeReport ==
    /\ generator = "comparative"
    /\ gen_status = "not called"
    /\ LET s0 == Running(("metadata" :> Metadata)
                         @@ ("pairwise_comparisons" :> Section(<< >>))
                         @@ ("correlation_analysis" :> Section(<< >>))
                         @@ ("regression_analysis" :> Section(<< >>))
                         @@ ("diagnostic_tests" :> Section(<< >>)))
           s1 == TryPart(s0, "pairwise_comparisons", "semantic_distance", "error",
                         ErrorEntry, outcomes["pairwise_comparisons"])
           s2 == TryPart(s1, "correlation_analysis", "results", "error",
                         ErrorEntry, outcomes["correlation_analysis"])
           s3 == TryPart(s2, "regression_analysis", "linear", "error",
                         ErrorEntry, outcomes["linear"])
           s4 == TryPart(s3, "regression_analysis", "quadratic", "error",
                         ErrorEntry, outcomes["quadratic"])
           s5 == TryDiagnostics(s4, outcomes["diagnostic_tests"])
       IN  Save(s5)
    /\ UNCHANGED <<generator, outcomes>>
    /\ UNCHANGED <<corrVars, srVars, loadVars, randVars, callVars, healVars, costVars>>

GenerateSensitivityReport ==
    /\ generator = "sensitivity"
    /\ gen_status = "not called"
    /\ LET s0 == Running(("metadata" :> Metadata)
                         @@ ("parameter_sensitivity" :> Section(<< >>))
                         @@ ("bootstrap_analysis" :> Section(<< >>))
                         @@ ("anova_results" :> Section(<< >>))
                         @@ ("effect_sizes" :> Section(<< >>)))
           s1 == TryPart(s0, "parameter_sensitivity", "embedding_dimension",
                         "embedding_dimension", ErrorObject, outcomes["embedding_dimension"])
           s2 == TryPart(s1, "parameter_sensitivity", "ngram_range",
                         "ngram_range", ErrorObject, outcomes["ngram_range"])
           s3 == TryPart(s2, "bootstrap_analysis", "cosine_distance",
                         "cosine_distance", ErrorObject, outcomes["cosine_distance"])
           s4 == TryPart(s3, "anova_results", "multi_factor",
                         "multi_factor", ErrorObject, outcomes["multi_factor"])
           s5 == TryPart(s4, "effect_sizes", "cohens_d_0_vs_50",
                         "cohens_d_0_vs_50", ErrorObject, outcomes["cohens_d_0_vs_50"])
       IN  Save(s5)
    /\ UNCHANGED <<generator, outcomes>>
    /\ UNCHANGED <<corrVars, srVars, loadVars, randVars, callVars, healVars, costVars>>

NextReport ==
    \/ GenerateStochasticResonanceReport
    \/ GenerateInformationTheoryReport
    \/ GenerateComparativeReport
    \/ GenerateSensitivityReport

(***************************************************************************)
(* Analyzer constructors: __init__ calls _load_results                     *)
(*                                                                         *)
(* The text of the results file is a sequence of tokens; json.load accepts *)
(* it when it is one well-formed JSON value.                               *)
(***************************************************************************)
JsonTokens == {"{", "}", ","}
Absent == <<"absent">>
FileTexts == SeqsUpTo(JsonTokens, MaxFileLen)

\* json.load: the loaded data, or JSONDecodeError
JsonLoad(text) ==
    IF text = <<"{", "}">> THEN "data" ELSE "JSONDecodeError"

AnalyzerClasses ==
    {"ComparativeAnalyzer", "SensitivityAnalyzer", "InformationTheoreticAnalyzer",
     "StochasticResonanceDetector", "SelfHealingAnalyzer"}

\* _load_results of ComparativeAnalyzer and SensitivityAnalyzer: the read is
\* inside try/except Exception, which raises AnalysisError
LoadResultsWrapped(file) ==
    IF file = Absent THEN "AnalysisError"
    ELSE IF JsonLoad(file) = "JSONDecodeError" THEN "AnalysisError"
    ELSE "object"

\* _load_results of InformationTheoreticAnalyzer, StochasticResonanceDetector
\* and SelfHealingAnalyzer: only the existence test raises AnalysisError
LoadResultsBare(file) ==
    IF file = Absent THEN "AnalysisError"
    ELSE IF JsonLoad(file) = "JSONDecodeError" THEN "JSONDecodeError"
    ELSE "object"

\* what cls(data_path) gives: an object, or the exception that leaves __init__
Construct(cls, file) ==
    IF cls \in {"ComparativeAnalyzer", "SensitivityAnalyzer"}
    THEN LoadResultsWrapped(file)
    ELSE LoadResultsBare(file)

InitLoad ==
    /\ results_file \in {Absent} \cup FileTexts
    /\ analyzers = [c \in AnalyzerClasses |-> "not constructed"]

IdleLoad ==
    /\ results_file = Absent
    /\ analyzers = << >>

ConstructAnalyzer(cls) ==
    /\ analyzers[cls] = "not constructed"
    /\ analyzers' = [analyzers EXCEPT ![cls] = Construct(cls, results_file)]
    /\ UNCHANGED results_file
    /\ UNCHANGED <<corrVars, srVars, reportVars, randVars, callVars, healVars, costVars>>

NextLoad == \E cls \in AnalyzerClasses : ConstructAnalyzer(cls)

(***************************************************************************)
(* Pseudo-randomness                                                       *)
(*                                                                         *)
(* A generator is a state from which draws are taken one after the other.  *)
(* np.random is the process-wide generator: nothing in the code seeds it,  *)
(* so its state when the program starts is arbitrary.                      *)
(* np.random.RandomState(seed) is a fresh generator whose state is fixed   *)
(* by seed.  An analysis returns a function of the loaded results and of   *)
(* its draws; the loaded results are the same in every invocation.         *)
(***************************************************************************)
RngStates == 0..(RngModulus - 1)
Advance(s) == (5 * s + 3) % RngModulus
Seeded(seed) == seed % RngModulus

\* the values of `count` successive draws from state s
RECURSIVE Draws(_, _)
Draws(s, count) ==
    IF count = 0 THEN << >> ELSE <<Advance(s)>> \o Draws(Advance(s), count - 1)

\* the state after `count` draws
RECURSIVE After(_, _)
After(s, count) == IF count = 0 THEN s ELSE After(Advance(s), count - 1)

RandomAnalyses ==
    {"bootstrap_analysis", "pairwise_comparisons", "diagnostic_tests",
     "detect_stochastic_resonance"}

\* bootstrap_analysis: rng = np.random.RandomState(42); rng.choice(...)
BootstrapAnalysis == Draws(Seeded(42), DrawsPerCall)

\* pairwise_comparisons, diagnostic_tests, detect_stochastic_resonance:
\* np.random.normal(...)
GlobalDraws(g) == Draws(g, DrawsPerCall)

\* the metric values a results file may hold
MetricValues == 0..1

\* what an analysis returns: the loaded value perturbed by its draws
Samples(val, draws) == [i \in DOMAIN draws |-> val + draws[i]]

\* what a call of an analysis returns when self.results is res and the
\* global generator is in state g
Returns(analysis, res, g) ==
    IF analysis = "bootstrap_analysis"
    THEN Samples(res, BootstrapAnalysis)
    ELSE Samples(res, GlobalDraws(g))

InitRand ==
    /\ global_rng \in RngStates
    /\ results \in MetricValues
    /\ invocations = << >>

IdleRand ==
    /\ global_rng = 0
    /\ results = 0
    /\ invocations = << >>

CallBootstrapAnalysis ==
    /\ Len(invocations) < MaxCalls
    /\ invocations' = Append(invocations,
           [analysis |-> "bootstrap_analysis", value |-> Returns("bootstrap_analysis", results, global_rng)])
    /\ UNCHANGED <<global_rng, results>>
    /\ UNCHANGED <<corrVars, srVars, reportVars, loadVars, callVars, healVars, costVars>>

\* pairwise_comparisons: samples1 = np.random.normal(val1, ...)
CallPairwiseComparisons ==
    /\ Len(invocations) < MaxCalls
    /\ invocations' = Append(invocations,
           [analysis |-> "pairwise_comparisons", value |-> Returns("pairwise_comparisons", results, global_rng)])
    /\ global_rng' = After(global_rng, DrawsPerCall)
    /\ UNCHANGED results
    /\ UNCHANGED <<corrVars, srVars, reportVars, loadVars, callVars, healVars, costVars>>

\* diagnostic_tests: samples = np.random.normal(val, abs(val) * 0.05, 30)
CallDiagnosticTests ==
    /\ Len(invocations) < MaxCalls
    /\ invocations' = Append(invocations,
           [analysis |-> "diagnostic_tests", value |-> Returns("diagnostic_tests", results, global_rng)])
    /\ global_rng' = After(global_rng, DrawsPerCall)
    /\ UNCHANGED results
    /\ UNCHANGED <<corrVars, srVars, reportVars, loadVars, callVars, healVars, costVars>>

\* detect_stochastic_resonance, on a curve with an interior maximum:
\* perturbed = np.array(snr_values) + np.random.normal(0, 0.1, len(snr_values))
CallDetectStochasticResonance ==
    /\ Len(invocations) < MaxCalls
    /\ invocations' = Append(invocations,
           [analysis |-> "detect_stochastic_resonance", value |-> Returns("detect_stochastic_resonance", results, global_rng)])
    /\ global_rng' = After(global_rng, DrawsPerCall)
    /\ UNCHANGED results
    /\ UNCHANGED <<corrVars, srVars, reportVars, loadVars, callVars, healVars, costVars>>

NextRand ==
    \/ CallBootstrapAnalysis
    \/ CallPairwiseComparisons
    \/ CallDiagnosticTests
    \/ CallDetectStochasticResonance

(***************************************************************************)
(* Single calls: the operation with its arguments, and what it returns     *)
(***************************************************************************)
NoCall == [op |-> "none"]
NotReturned == [status |-> "not returned"]
Value(v) == [status |-> "returned", value |-> v]
Raise(exc) == [status |-> "raised", exc |-> exc]

IdleCall ==
    /\ call = NoCall
    /\ returned = NotReturned

(***************************************************************************)
(* Confidence intervals                                                    *)
(*                                                                         *)
(* A bound is a fraction num/den with den > 0, or NaN.                     *)
(***************************************************************************)
Frac(n, d) == [kind |-> "num", num |-> n, den |-> d]
NaN == [kind |-> "nan", num |-> 0, den |-> 1]
Interval(lo, up) == [lower |-> lo, upper |-> up]

\* lo <= up as Python evaluates it: False when either side is NaN
Leq(lo, up) ==
    /\ lo.kind = "num"
    /\ up.kind = "num"
    /\ lo.num * up.den <= up.num * lo.den

\* sorted(seq)
RECURSIVE Insert(_, _)
Insert(sorted, x) ==
    IF sorted = << >> THEN <<x>>
    ELSE IF x <= Head(sorted) THEN <<x>> \o sorted
    ELSE <<Head(sorted)>> \o Insert(Tail(sorted), x)

RECURSIVE Sorted(_)
Sorted(seq) == IF seq = << >> THEN << >> ELSE Insert(Sorted(Tail(seq)), Head(seq))

\* np.percentile(values, q / 10) by linear interpolation between the two
\* nearest order statistics, in thousandths; q is in tenths of a percent
Percentile_Reversed(values, q) ==
    LET s == Sorted(values)
        pos == (1000 - q) * (Len(s) - 1)
        k == pos \div 1000
    IN  IF k + 2 > Len(s) THEN 1000 * s[k + 1]
        ELSE 1000 * s[k + 1] + (pos % 1000) * (s[k + 2] - s[k + 1])
Percentile(values, q) ==
    LET s == Sorted(values)
        pos == q * (Len(s) - 1)
        k == pos \div 1000
    IN  IF k + 2 > Len(s) THEN 1000 * s[k + 1]
        ELSE 1000 * s[k + 1] + (pos % 1000) * (s[k + 2] - s[k + 1])

RECURSIVE SumSeq(_)
SumSeq(seq) == IF seq = << >> THEN 0 ELSE Head(seq) + SumSeq(Tail(seq))

\* rng.choice(distances, size=len(distances), replace=True)
Resample(distances, s) ==
    LET d == Draws(s, Len(distances))
    IN  [i \in 1..Len(distances) |-> distances[(d[i] % Len(distances)) + 1]]

\* the sums of n_iterations resamples drawn one after the other from rng
\* (np.mean of a resample is its sum over len(distances))
RECURSIVE BootstrapSums(_, _, _)
BootstrapSums(distances, s, n_iterations) ==
    IF n_iterations = 0 THEN << >>
    ELSE <<SumSeq(Resample(distances, s))>>
         \o BootstrapSums(distances, After(s, Len(distances)), n_iterations - 1)

\* bootstrap_analysis: the percentile interval of the resampled means
BootstrapInterval(distances, n_iterations) ==
    IF Len(distances) < 2 THEN Raise("AnalysisError")
    ELSE LET sums == BootstrapSums(distances, Seeded(42), n_iterations)
         IN  Value(Interval(Frac(Percentile(sums, 25), 1000 * Len(distances)),
                            Frac(Percentile(sums, 975), 1000 * Len(distances))))

\* correlation coefficients: k / RDen for k in -RDen..RDen (RDen bounds how
\* finely the coefficients are sampled), or NaN (a
\* constant series)
RDen == 4

\* highest polynomial_degree
MaxDegree == 2

\* most words of an intermediate text
MaxWords == 9

\* longest text, in characters
MaxTextLen == 3
Coefficients == { Frac(k, RDen) : k \in -RDen..RDen } \cup {NaN}

\* exp(2 * z) for z = 0.5 * np.log((1 + r) / (1 - r)), r a numpy float:
\* 0 when r = -1 (log(0) = -inf), inf when r = 1 (division by zero gives
\* inf), NaN when r is NaN, and the fraction (1 + r) / (1 - r) otherwise
ExpTwoZ(r) ==
    IF r.kind = "nan" THEN [kind |-> "nan", num |-> 0, den |-> 1]
    ELSE IF r.num = r.den THEN [kind |-> "inf", num |-> 0, den |-> 1]
    ELSE IF r.num = -r.den THEN [kind |-> "zero", num |-> 0, den |-> 1]
    ELSE [kind |-> "pos", num |-> r.den + r.num, den |-> r.den - r.num]

\* exp(2 * z_crit * se_z) for se_z = 1 / np.sqrt(n - 3), z_crit = 1.96,
\* rounded to an integer; inf when n = 3 (se_z = inf)
Margin(n) ==
    CASE n = 3 -> [kind |-> "inf", num |-> 0]
      [] n = 4 -> [kind |-> "pos", num |-> 50]
      [] n = 5 -> [kind |-> "pos", num |-> 16]
      [] n = 6 -> [kind |-> "pos", num |-> 10]
      [] n = 7 -> [kind |-> "pos", num |-> 7]
      [] OTHER -> [kind |-> "pos", num |-> 6]

\* exp(2 * z_lower) for z_lower = z - z_crit * se_z
ExpTwoZLower(x, m) ==
    CASE x.kind = "nan" -> x
      [] x.kind = "zero" -> x
      [] x.kind = "inf" -> IF m.kind = "inf" THEN [x EXCEPT !.kind = "nan"] ELSE x
      [] x.kind = "pos" ->
            IF m.kind = "inf" THEN [kind |-> "zero", num |-> 0, den |-> 1]
            ELSE [x EXCEPT !.den = @ * m.num]

\* exp(2 * z_upper) for z_upper = z + z_crit * se_z
ExpTwoZUpper(x, m) ==
    CASE x.kind = "nan" -> x
      [] x.kind = "inf" -> x
      [] x.kind = "zero" -> IF m.kind = "inf" THEN [x EXCEPT !.kind = "nan"] ELSE x
      [] x.kind = "pos" ->
            IF m.kind = "inf" THEN [kind |-> "inf", num |-> 0, den |-> 1]
            ELSE [x EXCEPT !.num = @ * m.num]

\* (np.exp(2 * z) - 1) / (np.exp(2 * z) + 1): inf / inf is NaN
BackTransform(y) ==
    CASE y.kind = "nan" -> NaN
      [] y.kind = "inf" -> NaN
      [] y.kind = "zero" -> Frac(-1, 1)
      [] y.kind = "pos" -> Frac(y.num - y.den, y.num + y.den)

\* _correlation_ci(r, n)
CorrelationCI(r, n) ==
    IF n < 3 THEN Interval(NaN, NaN)
    ELSE Interval(BackTransform(ExpTwoZLower(ExpTwoZ(r), Margin(n))),
                  BackTransform(ExpTwoZUpper(ExpTwoZ(r), Margin(n))))

CorrelationTests == {"Pearson r", "Spearman rho", "Kendall tau"}

\* the confidence_interval of the CorrelationResult of one test
CorrelationInterval(test, r, n) ==
    IF test = "Kendall tau" THEN Interval(NaN, NaN) ELSE CorrelationCI(r, n)

\* the confidence_interval of detect_stochastic_resonance; bootstrap_optima
\* are the noise levels at the argmax of the perturbed curves
DetectInterval(ts, bootstrap_optima) ==
    LET noise_levels == SortedLevels(DOMAIN ts)
        snr_values == SnrValues(ts)
        max_snr_idx == ArgMax(snr_values, Len(snr_values))
        has_interior_max == max_snr_idx > 1 /\ max_snr_idx < Len(snr_values)
    IN  IF Len(noise_levels) < 3 THEN Interval(Frac(0, 1), Frac(0, 1))
        ELSE IF Len(snr_values) >= 4 /\ has_interior_max
        THEN Interval(Frac(Percentile(bootstrap_optima, 25), 1000),
                      Frac(Percentile(bootstrap_optima, 975), 1000))
        ELSE Interval(Frac(0, 1), Frac(noise_levels[Len(noise_levels)], 1))

DistanceValues == 0..2
CISims == {2, 8}
CIMaps == UNION { [S -> CISims] : S \in SUBSET Levels }

BootstrapCalls ==
    { [op |-> "bootstrap_analysis", distances |-> d, n_iterations |-> MaxIterations] :
        d \in SeqsUpTo(DistanceValues, MaxDistances) }
CorrelationCalls ==
    { [op |-> "correlation_analysis", test |-> t, r |-> r, n |-> n] :
        t \in CorrelationTests, r \in Coefficients, n \in 2..MaxPoints }
DetectCalls ==
    UNION { { [op |-> "detect_stochastic_resonance", text_similarities |-> ts,
               bootstrap_optima |-> o] : o \in [1..MaxIterations -> DOMAIN ts] } :
            ts \in { m \in CIMaps : DOMAIN m # {} } }

InitCI ==
    /\ call \in BootstrapCalls \cup CorrelationCalls \cup DetectCalls
    /\ returned = NotReturned

BootstrapAnalysisInterval ==
    /\ call.op = "bootstrap_analysis"
    /\ returned = NotReturned
    /\ returned' = BootstrapInterval(call.distances, call.n_iterations)
    /\ UNCHANGED call
    /\ UNCHANGED <<corrVars, srVars, reportVars, loadVars, randVars, healVars, costVars>>

CorrelationAnalysisInterval ==
    /\ call.op = "correlation_analysis"
    /\ returned = NotReturned
    /\ returned' = Value(CorrelationInterval(call.test, call.r, call.n))
    /\ UNCHANGED call
    /\ UNCHANGED <<corrVars, srVars, reportVars, loadVars, randVars, healVars, costVars>>

DetectStochasticResonanceInterval ==
    /\ call.op = "detect_stochastic_resonance"
    /\ returned = NotReturned
    /\ returned' = Value(DetectInterval(call.text_similarities, call.bootstrap_optima))
    /\ UNCHANGED call
    /\ UNCHANGED <<corrVars, srVars, reportVars, loadVars, randVars, healVars, costVars>>

NextCI ==
    \/ BootstrapAnalysisInterval
    \/ CorrelationAnalysisInterval
    \/ DetectStochasticResonanceInterval

(***************************************************************************)
(* pairwise_comparisons                                                    *)
(*                                                                         *)
(* metric_dict maps the noise levels of the chosen metric to their value.  *)
(* mannwhitneyu returns for any two samples of 30 values, so the except    *)
(* branch that skips a pair is not taken.                                  *)
(***************************************************************************)
MetricDicts == UNION { [S -> MetricValues] : S \in SUBSET Levels }

\* for noise2 in noise_levels[i+1:]
InnerLevels_FromI(noise_levels, i) ==
    [j \in 1..(Len(noise_levels) - i + 1) |-> noise_levels[i + j - 1]]
InnerLevels(noise_levels, i) ==
    [j \in 1..(Len(noise_levels) - i) |-> noise_levels[i + j]]

\* the comparisons appended by the inner loop for noise1 = noise_levels[i]
ComparisonsOf(metric_dict, noise_levels, i) ==
    LET inner == InnerLevels(noise_levels, i)
    IN  [j \in 1..Len(inner) |->
            [group1 |-> noise_levels[i], group2 |-> inner[j],
             val1 |-> metric_dict[noise_levels[i]], val2 |-> metric_dict[inner[j]]]]

\* for i, noise1 in enumerate(noise_levels): ...
RECURSIVE Comparisons(_, _, _)
Comparisons(metric_dict, noise_levels, i) ==
    IF i > Len(noise_levels) THEN << >>
    ELSE ComparisonsOf(metric_dict, noise_levels, i)
         \o Comparisons(metric_dict, noise_levels, i + 1)

\* zip(comparisons, p_values_corrected): _apply_correction returns one
\* corrected value per comparison
PairwiseResults(metric_dict) ==
    LET noise_levels == SortedLevels(DOMAIN metric_dict)
        comparisons == Comparisons(metric_dict, noise_levels, 1)
    IN  [k \in 1..Len(comparisons) |->
            [group1_name |-> comparisons[k].group1, group2_name |-> comparisons[k].group2]]

InitPairwise ==
    /\ call \in { [op |-> "pairwise_comparisons", metric_dict |-> d] : d \in MetricDicts }
    /\ returned = NotReturned

PairwiseComparisons ==
    /\ call.op = "pairwise_comparisons"
    /\ returned = NotReturned
    /\ returned' = Value(PairwiseResults(call.metric_dict))
    /\ UNCHANGED call
    /\ UNCHANGED <<corrVars, srVars, reportVars, loadVars, randVars, healVars, costVars>>

NextPairwise == PairwiseComparisons

(***************************************************************************)
(* Texts                                                                   *)
(*                                                                         *)
(* A text is a sequence of characters; str.lower() maps "A" to "a" and     *)
(* str.split() cuts at runs of blanks.                                     *)
(***************************************************************************)
Chars == {"a", "A", "b", " "}
Texts == UNION { [1..n -> Chars] : n \in 0..MaxTextLen }

Lower_Unchanged(text) == text
Lower(text) == [i \in DOMAIN text |-> IF text[i] = "A" THEN "a" ELSE text[i]]

RECURSIVE SplitFrom(_, _, _)
SplitFrom(text, i, word) ==
    LET done == IF word = << >> THEN << >> ELSE <<word>>
    IN  IF i > Len(text) THEN done
        ELSE IF text[i] = " " THEN done \o SplitFrom(text, i + 1, << >>)
        ELSE SplitFrom(text, i + 1, Append(word, text[i]))
Split(text) == SplitFrom(text, 1, << >>)

WordSet(words) == { words[i] : i \in DOMAIN words }
Count(words, w) == Cardinality({ i \in DOMAIN words : words[i] = w })

(***************************************************************************)
(* calculate_mutual_information                                            *)
(*                                                                         *)
(* Entropies are in thousandths of a bit.                                  *)
(***************************************************************************)
\* 1000 * log2(n), rounded
Log2Milli(n) ==
    <<0, 1000, 1585, 2000, 2322, 2585, 2807, 3000, 3170, 3322, 3459, 3585>>[n]

RECURSIVE SumOver(_, _)
SumOver(S, f) ==
    IF S = {} THEN 0
    ELSE LET x == CHOOSE y \in S : TRUE IN f[x] + SumOver(S \ {x}, f)

\* -sum(p * log2(p)) with p = counter[w] / total; a word the text does not
\* have is clipped to eps and adds less than a thousandth
Entropy(words) ==
    LET total == Len(words)
        vocab == WordSet(words)
        c == [w \in vocab |-> Count(words, w) * Log2Milli(Count(words, w))]
    IN  IF total = 0 THEN 0
        ELSE (total * Log2Milli(total) - SumOver(vocab, c)) \div total

\* H_XY = H_X + H_Y * (1 - overlap_ratio)
JointEntropy(H_X, H_Y, overlap, vocab) ==
    IF vocab = 0 THEN H_X + H_Y
    ELSE H_X + (H_Y * (vocab - overlap)) \div vocab

MutualInformation(text1, text2) ==
    LET all1 == Split(Lower(text1))
        all2 == Split(Lower(text2))
        words1 == WordSet(all1)
        words2 == WordSet(all2)
        vocab == words1 \cup words2
        H_X == Entropy(all1)
        H_Y == Entropy(all2)
        H_XY == JointEntropy(H_X, H_Y, Cardinality(words1 \cap words2), Cardinality(vocab))
        MI == IF H_X + H_Y - H_XY > 0 THEN H_X + H_Y - H_XY ELSE 0
    IN  IF vocab # {} /\ (all1 = << >> \/ all2 = << >>)
        THEN Raise("ZeroDivisionError")
        ELSE Value([mutual_information |-> MI,
                    entropy_text1 |-> H_X,
                    entropy_text2 |-> H_Y,
                    joint_entropy |-> H_XY,
                    information_loss |-> H_X - MI])

InitMI ==
    /\ call \in { [op |-> "calculate_mutual_information", text1 |-> a, text2 |-> b] :
                    a \in Texts, b \in Texts }
    /\ returned = NotReturned

CalculateMutualInformation ==
    /\ call.op = "calculate_mutual_information"
    /\ returned = NotReturned
    /\ returned' = MutualInformation(call.text1, call.text2)
    /\ UNCHANGED call
    /\ UNCHANGED <<corrVars, srVars, reportVars, loadVars, randVars, healVars, costVars>>

NextMI == CalculateMutualInformation

(***************************************************************************)
(* information_bottleneck_analysis                                        *)
(*                                                                         *)
(* compression_rate and relevance_preserved are fractions with the same    *)
(* denominator, len(intermediate_texts) * H_X.                             *)
(***************************************************************************)
Infinity == [kind |-> "inf", num |-> 1, den |-> 0]
Clamp(x, top) == Max2(0, Min2(top, x))

\* float(min(optimal_beta, 100))  # Cap for display
CapForDisplay_FiniteOnly(optimal_beta) ==
    IF optimal_beta.kind = "inf" THEN optimal_beta
    ELSE IF optimal_beta.num > 100 * optimal_beta.den THEN Frac(100, 1)
    ELSE optimal_beta
CapForDisplay(optimal_beta) ==
    IF optimal_beta.kind = "inf" THEN Frac(100, 1)
    ELSE IF optimal_beta.num > 100 * optimal_beta.den THEN Frac(100, 1)
    ELSE optimal_beta

\* calculate_entropy(original_text, "word").shannon_entropy
WordEntropy(text) == Entropy(Split(Lower(text)))

InformationBottleneck(original_text, intermediate_texts, final_text) ==
    LET relevance == MutualInformation(original_text, final_text)
        compression == [i \in DOMAIN intermediate_texts |->
                           MutualInformation(original_text, intermediate_texts[i])]
        n == Max2(1, Len(intermediate_texts))
        H_X == WordEntropy(original_text)
        total == SumSeq([i \in DOMAIN compression |-> compression[i].value.mutual_information])
        compression_rate ==
            IF H_X > 0 THEN Frac(Clamp(n * H_X - total, n * H_X), n * H_X) ELSE Frac(0, 1)
        relevance_preserved ==
            IF H_X > 0 THEN Frac(n * Clamp(relevance.value.mutual_information, H_X), n * H_X)
            ELSE Frac(0, 1)
        optimal_beta ==
            IF compression_rate.num > 0
            THEN Frac(relevance_preserved.num, compression_rate.num)
            ELSE Infinity
    IN  IF relevance.status = "raised" THEN relevance
        ELSE IF \E i \in DOMAIN compression : compression[i].status = "raised"
        THEN Raise("ZeroDivisionError")
        ELSE Value([compression_rate |-> compression_rate,
                    relevance_preserved |-> relevance_preserved,
                    optimal_beta |-> CapForDisplay(optimal_beta)])

\* the text of i words "a" followed by j words "b"
WordsText(i, j) ==
    [k \in 1..(2 * (i + j) - 1) |->
        IF k % 2 = 0 THEN " " ELSE IF (k + 1) \div 2 <= i THEN "a" ELSE "b"]
ShortTexts == { WordsText(i, j) : i \in 0..2, j \in 0..2 }
LongTexts ==
    { WordsText(c[1], c[2]) : c \in { d \in (0..MaxWords) \X (0..MaxWords) : d[1] + d[2] \in 1..MaxWords } }
IntermediateLists ==
    {<< >>} \cup { <<t>> : t \in LongTexts }
            \cup { <<t, u>> : t \in ShortTexts, u \in ShortTexts }

InitIB ==
    /\ call \in { [op |-> "information_bottleneck_analysis", original_text |-> o,
                   intermediate_texts |-> ts, final_text |-> f] :
                    o \in ShortTexts, ts \in IntermediateLists, f \in ShortTexts }
    /\ returned = NotReturned

InformationBottleneckAnalysis ==
    /\ call.op = "information_bottleneck_analysis"
    /\ returned = NotReturned
    /\ returned' = InformationBottleneck(call.original_text, call.intermediate_texts,
                                         call.final_text)
    /\ UNCHANGED call
    /\ UNCHANGED <<corrVars, srVars, reportVars, loadVars, randVars, healVars, costVars>>

NextIB == InformationBottleneckAnalysis

(***************************************************************************)
(* regression_analysis                                                     *)
(*                                                                         *)
(* The response values are small integers.  R^2 is "one" when the least-   *)
(* squares polynomial passes through every point, "nan" when r2_score has  *)
(* fewer than two samples, "below" otherwise.  r2_score returns a Python   *)
(* float in some releases of scikit-learn and a numpy.float64 in others;   *)
(* a Python float divided by the integer 0 raises ZeroDivisionError, a     *)
(* numpy.float64 gives nan or inf.                                         *)
(***************************************************************************)
ResponseValues == 0..2
ResponseDicts == UNION { [S -> ResponseValues] : S \in SUBSET Levels }
R2Types == {"float", "numpy.float64"}

RECURSIVE ProductOver(_, _)
ProductOver(S, f) ==
    IF S = {} THEN 1
    ELSE LET x == CHOOSE y \in S : TRUE IN f[x] * ProductOver(S \ {x}, f)

\* the Vandermonde determinant of the points of the window other than a
Vandermonde(x, window, a) ==
    LET pairs == { p \in (window \ {a}) \X (window \ {a}) : p[1] < p[2] }
    IN  ProductOver(pairs, [p \in pairs |-> x[p[2]] - x[p[1]]])

\* the divided difference of order m of the points first..first+m, times
\* the Vandermonde determinant of the window
DividedDifference(x, y, first, m) ==
    LET window == first..(first + m)
        term == [a \in window |->
                    (IF (first + m - a) % 2 = 0 THEN 1 ELSE -1) * y[a] * Vandermonde(x, window, a)]
    IN  SumOver(window, term)

\* model.fit(X_poly, y) leaves no residual: every divided difference of
\* order k + 1 vanishes
PerfectFit(x, y, k) ==
    \A first \in 1..(Len(x) - k - 1) : DividedDifference(x, y, first, k + 1) = 0

\* r2_score(y, y_pred)
RSquared(x, y, k) ==
    IF Len(x) < 2 THEN "nan"
    ELSE IF PerfectFit(x, y, k) THEN "one" ELSE "below"

\* 1 - (1 - r_squared) * (n - 1) / (n - k - 1)
AdjustedRSquared(r_squared, n, k, r2_type) ==
    IF n - k - 1 = 0
    THEN IF r2_type = "float" THEN Raise("ZeroDivisionError") ELSE Value("nan")
    ELSE IF r_squared = "nan" THEN Value("nan")
    ELSE IF r_squared = "one" THEN Value("one") ELSE Value("finite")

\* if r_squared < 1.0: ... else: f_stat, p_value_f = np.inf, 0.0
FStatistic(r_squared) ==
    IF r_squared = "below"
    THEN [f_statistic |-> "finite", p_value |-> "finite"]
    ELSE [f_statistic |-> "inf", p_value |-> "zero"]

Regression(response_dict, polynomial_degree, r2_type) ==
    LET noise_levels == SortedLevels(DOMAIN response_dict)
        response_values == [i \in DOMAIN noise_levels |-> response_dict[noise_levels[i]]]
        n == Len(response_values)
        k == polynomial_degree
        r_squared == RSquared(noise_levels, response_values, k)
        adjusted_r_squared == AdjustedRSquared(r_squared, n, k, r2_type)
        f == FStatistic(r_squared)
    IN  IF n = 0 THEN Raise("ValueError")
        ELSE IF adjusted_r_squared.status = "raised" THEN adjusted_r_squared
        ELSE Value([r_squared |-> r_squared,
                    adjusted_r_squared |-> adjusted_r_squared.value,
                    f_statistic |-> f.f_statistic,
                    p_value |-> f.p_value])

InitRegression ==
    /\ call \in { [op |-> "regression_analysis", response_dict |-> d,
                   polynomial_degree |-> k, r2_type |-> t] :
                    d \in ResponseDicts, k \in 1..MaxDegree, t \in R2Types }
    /\ returned = NotReturned

RegressionAnalysis ==
    /\ call.op = "regression_analysis"
    /\ returned = NotReturned
    /\ returned' = Regression(call.response_dict, call.polynomial_degree, call.r2_type)
    /\ UNCHANGED call
    /\ UNCHANGED <<corrVars, srVars, reportVars, loadVars, randVars, healVars, costVars>>

NextRegression == RegressionAnalysis

(***************************************************************************)
(* analyze_snr_curve                                                       *)
(*                                                                         *)
(* max_idx is 0-based, as in the code.                                     *)
(***************************************************************************)
CurveType_NotFirst(max_idx, n) ==
    IF max_idx > 0 THEN "resonant"
    ELSE IF max_idx = 0 THEN "monotonic_decreasing"
    ELSE "monotonic_increasing"
CurveType(max_idx, n) ==
    IF max_idx > 0 /\ max_idx < n - 1 THEN "resonant"
    ELSE IF max_idx = 0 THEN "monotonic_decreasing"
    ELSE "monotonic_increasing"

\* baseline_sim = similarities[0] raises IndexError without a level
SnrCurve(ts) ==
    LET snr_values == SnrValues(ts)
        max_idx == ArgMax(snr_values, Len(snr_values)) - 1
    IN  IF DOMAIN ts = {} THEN Raise("IndexError")
        ELSE Value([noise_levels |-> SortedLevels(DOMAIN ts),
                    snr_values |-> snr_values,
                    curve_type |-> CurveType(max_idx, Len(snr_values))])

InitCurve ==
    /\ call \in { [op |-> "analyze_snr_curve", text_similarities |-> ts] :
                    ts \in SimilarityMaps }
    /\ returned = NotReturned

AnalyzeSnrCurve ==
    /\ call.op = "analyze_snr_curve"
    /\ returned = NotReturned
    /\ returned' = SnrCurve(call.text_similarities)
    /\ UNCHANGED call
    /\ UNCHANGED <<corrVars, srVars, reportVars, loadVars, randVars, healVars, costVars>>

NextCurve == AnalyzeSnrCurve

(***************************************************************************)
(* get_local_embedding                                                     *)
(***************************************************************************)
\* TfidfVectorizer's tokens: the lower-cased runs of two or more word
\* characters
LongEnough(word) == Len(word) >= 2
Tokens(text) == SelectSeq(Split(Lower(text)), LongEnough)

\* ngram_range=(1, 3)
NGrams(tokens) ==
    { SubSeq(tokens, i, j) : i \in DOMAIN tokens, j \in DOMAIN tokens } \ {<< >>}
Vocabulary(texts) ==
    UNION { { g \in NGrams(Tokens(texts[t])) : Len(g) <= 3 } : t \in DOMAIN texts }

\* vectorizer.fit_transform(texts).toarray(), inside the try: an empty
\* vocabulary is a ValueError of the vectorizer
FitTransform(texts) ==
    IF Vocabulary(texts) = {} THEN Raise("ValueError")
    ELSE Value([shape |-> <<Len(texts), Min2(1000, Cardinality(Vocabulary(texts)))>>])

GetLocalEmbedding_CheckedInsideTry(texts) ==
    IF texts = << >> \/ FitTransform(texts).status = "raised"
    THEN Raise("AnalysisError")
    ELSE FitTransform(texts)
GetLocalEmbedding(texts) ==
    IF texts = << >> THEN Raise("ValueError")
    ELSE IF FitTransform(texts).status = "raised" THEN Raise("AnalysisError")
    ELSE FitTransform(texts)

TextLists == {<< >>} \cup { <<t>> : t \in Texts } \cup { <<t, u>> : t \in Texts, u \in Texts }

InitEmbedding ==
    /\ call \in { [op |-> "get_local_embedding", texts |-> ts] : ts \in TextLists }
    /\ returned = NotReturned

GetLocalEmbeddingCall ==
    /\ call.op = "get_local_embedding"
    /\ returned = NotReturned
    /\ returned' = GetLocalEmbedding(call.texts)
    /\ UNCHANGED call
    /\ UNCHANGED <<corrVars, srVars, reportVars, loadVars, randVars, healVars, costVars>>

NextEmbedding == GetLocalEmbeddingCall

(***************************************************************************)
(* calculate_text_similarity and calculate_word_overlap                    *)
(***************************************************************************)
\* SequenceMatcher.find_longest_match: the longest block a[i..i+k-1] =
\* b[j..j+k-1] inside the two ranges, the one starting earliest in a and,
\* among those, earliest in b
Blocks(a, alo, ahi, b, blo, bhi) ==
    { m \in (alo..ahi) \X (blo..bhi) \X (1..(ahi - alo + 1)) :
        /\ m[1] + m[3] - 1 <= ahi
        /\ m[2] + m[3] - 1 <= bhi
        /\ \A d \in 0..(m[3] - 1) : a[m[1] + d] = b[m[2] + d] }
Earlier(m, o) ==
    \/ m[3] > o[3]
    \/ m[3] = o[3] /\ m[1] < o[1]
    \/ m[3] = o[3] /\ m[1] = o[1] /\ m[2] <= o[2]
FindLongestMatch(a, alo, ahi, b, blo, bhi) ==
    LET blocks == Blocks(a, alo, ahi, b, blo, bhi)
    IN  CHOOSE m \in blocks : \A o \in blocks : Earlier(m, o)

\* SequenceMatcher.get_matching_blocks: the longest block, then the same to
\* its left and to its right; the number of matched characters
RECURSIVE Matches(_, _, _, _, _, _)
Matches(a, alo, ahi, b, blo, bhi) ==
    IF Blocks(a, alo, ahi, b, blo, bhi) = {} THEN 0
    ELSE LET m == FindLongestMatch(a, alo, ahi, b, blo, bhi)
         IN  m[3] + Matches(a, alo, m[1] - 1, b, blo, m[2] - 1)
                  + Matches(a, m[1] + m[3], ahi, b, m[2] + m[3], bhi)

\* SequenceMatcher.ratio: 2.0 * matches / length, 1.0 for two empty strings
Ratio(a, b) ==
    IF Len(a) + Len(b) = 0 THEN Frac(1, 1)
    ELSE Frac(2 * Matches(a, 1, Len(a), b, 1, Len(b)), Len(a) + Len(b))

TextSimilarity(text1, text2) == Ratio(Lower(text1), Lower(text2))

LowerWords(text) == WordSet(Split(Lower(text)))

WordOverlap(text1, text2) ==
    LET words1 == LowerWords(text1)
        words2 == LowerWords(text2)
    IN  IF words1 = {} \/ words2 = {} THEN Frac(0, 1)
        ELSE Frac(Cardinality(words1 \cap words2), Cardinality(words1 \cup words2))

InitText ==
    /\ call \in { [op |-> o, text1 |-> a, text2 |-> b] :
                    o \in {"calculate_text_similarity", "calculate_word_overlap"},
                    a \in Texts, b \in Texts }
    /\ returned = NotReturned

CalculateTextSimilarity ==
    /\ call.op = "calculate_text_similarity"
    /\ returned = NotReturned
    /\ returned' = Value(TextSimilarity(call.text1, call.text2))
    /\ UNCHANGED call
    /\ UNCHANGED <<corrVars, srVars, reportVars, loadVars, randVars, healVars, costVars>>

CalculateWordOverlap ==
    /\ call.op = "calculate_word_overlap"
    /\ returned = NotReturned
    /\ returned' = Value(WordOverlap(call.text1, call.text2))
    /\ UNCHANGED call
    /\ UNCHANGED <<corrVars, srVars, reportVars, loadVars, randVars, healVars, costVars>>

NextText == CalculateTextSimilarity \/ CalculateWordOverlap

(***************************************************************************)
(* load_final_outputs                                                      *)
(*                                                                         *)
(* files gives, for each configured noise level, the state of              *)
(* outputs/noise_<level>/agent3_english.txt: absent, its text, or a file   *)
(* that exists and cannot be read (open or read fails with an IOError) or  *)
(* cannot be decoded as UTF-8.                                             *)
(***************************************************************************)
Unreadable == <<"IOError">>
Undecodable == <<"UnicodeDecodeError">>
OutputContents == { << >>, <<" ">>, <<"a">>, <<" ", "a">>, <<"a", " ">>, <<"a", " ", "a">> }
OutputFiles == [Levels -> {Absent, Unreadable, Undecodable} \cup OutputContents]

\* str.strip()
RECURSIVE StripLeft(_)
StripLeft(text) ==
    IF text # << >> /\ Head(text) = " " THEN StripLeft(Tail(text)) ELSE text
RECURSIVE StripRight(_)
StripRight(text) ==
    IF text # << >> /\ text[Len(text)] = " "
    THEN StripRight(SubSeq(text, 1, Len(text) - 1)) ELSE text
Strip_Unchanged(text) == text
Strip(text) == StripRight(StripLeft(text))

\* for noise in NOISE_LEVELS: ... from position i on
RECURSIVE LoadFrom(_, _, _, _, _)
LoadFrom(files, levels, i, outputs, missing_files) ==
    IF i > Len(levels)
    THEN IF DOMAIN outputs = {} THEN Raise("AnalysisError")
         ELSE Value([outputs |-> outputs, missing_files |-> missing_files])
    ELSE LET noise == levels[i]
         IN  CASE files[noise] = Absent ->
                    LoadFrom(files, levels, i + 1, outputs, Append(missing_files, noise))
               [] files[noise] = Unreadable -> Raise("FileOperationError")
               [] files[noise] = Undecodable -> Raise("UnicodeDecodeError")
               [] OTHER ->
                    LoadFrom(files, levels, i + 1,
                             [l \in DOMAIN outputs \cup {noise} |->
                                 IF l = noise THEN Strip(files[noise]) ELSE outputs[l]],
                             missing_files)

LoadOutputs(files) == LoadFrom(files, SortedLevels(Levels), 1, << >>, << >>)

InitOutputs ==
    /\ call \in { [op |-> "load_final_outputs", files |-> f] : f \in OutputFiles }
    /\ returned = NotReturned

LoadFinalOutputs ==
    /\ call.op = "load_final_outputs"
    /\ returned = NotReturned
    /\ returned' = LoadOutputs(call.files)
    /\ UNCHANGED call
    /\ UNCHANGED <<corrVars, srVars, reportVars, loadVars, randVars, healVars, costVars>>

NextOutputs == LoadFinalOutputs

(***************************************************************************)
(* run_translation_chain                                                   *)
(*                                                                         *)
(* stages gives what each of the three stages meets: a response of the     *)
(* service, or the exception that ends the stage, or an OSError when its   *)
(* output file is opened.  events is what the run does, in order: a stage  *)
(* invoked with its input, an output file written with its content.        *)
(***************************************************************************)
Stages == 1..3
ChainResponses == { <<"a">>, <<"b", " ">> }
StageFailures == {"SkillNotFoundError", "APIError", "TranslationError", "KeyboardInterrupt"}
StageOutcomes ==
    { [kind |-> "response", text |-> t] : t \in ChainResponses }
        \cup { [kind |-> "raises", exc |-> e] : e \in StageFailures }
        \cup { [kind |-> "unwritable", text |-> <<"a">>] }
\* NOISY_INPUTS[noise_level]
NoisyInput(noise_level) == <<"n">>

Invoked(stage, input_text) == [type |-> "invoke", stage |-> stage, text |-> input_text]
Written(stage, content) == [type |-> "write", stage |-> stage, text |-> content]
Ended(status, exc, events) == [status |-> status, exc |-> exc, events |-> events]

\* the text handed to the following stage
NextInput_Unchanged(input_text, output) == input_text
NextInput(input_text, output) == output

\* stage k and the stages after it
RECURSIVE RunStages(_, _, _, _)
RunStages(k, input_text, stages, events) ==
    IF k > 3 THEN Ended("returned", "none", events)
    ELSE LET invoked == Append(events, Invoked(k, input_text))
             output == Strip(stages[k].text)
         IN  CASE stages[k].kind = "raises" -> Ended("raised", stages[k].exc, invoked)
               [] stages[k].kind = "unwritable" -> Ended("raised", "OSError", invoked)
               [] OTHER ->
                    RunStages(k + 1, NextInput(input_text, output), stages,
                              Append(invoked, Written(k, Append(output, "\n"))))

RunChain(noise_level, api_key, stages) ==
    IF ~api_key THEN Ended("raised", "ConfigurationError", << >>)
    ELSE IF noise_level \notin Levels THEN Ended("raised", "InvalidNoiseLevel", << >>)
    ELSE RunStages(1, NoisyInput(noise_level), stages, << >>)

InitChain ==
    /\ call \in { [op |-> "run_translation_chain", noise_level |-> l, api_key |-> key,
                   stages |-> s] :
                    l \in Levels \cup {5}, key \in BOOLEAN, s \in [Stages -> StageOutcomes] }
    /\ returned = NotReturned

RunTranslationChain ==
    /\ call.op = "run_translation_chain"
    /\ returned = NotReturned
    /\ returned' = RunChain(call.noise_level, call.api_key, call.stages)
    /\ UNCHANGED call
    /\ UNCHANGED <<corrVars, srVars, reportVars, loadVars, randVars, healVars, costVars>>

NextChain == RunTranslationChain

(***************************************************************************)
(* main                                                                    *)
(*                                                                         *)
(* args is what argparse returns: noise is <<level>>, or << >> for None    *)
(* without --noise.                                                        *)
(* chains gives how run_translation_chain ends for each level: it returns, *)
(* raises an Exception, or is interrupted (KeyboardInterrupt).             *)
(***************************************************************************)
ConfiguredLevels == [i \in 1..Min2(MaxLevels, Len(NOISE_LEVELS)) |-> NOISE_LEVELS[i]]
ChainEnds == {"returns", "Exception", "KeyboardInterrupt"}

\* not args.noise: true of None and of 0
Falsy(noise) == noise = << >> \/ noise = <<0>>

\* except Exception: ... continue
Continues_OnlyAfterReturn(chain_end) == chain_end = "returns"
Continues(chain_end) == chain_end # "KeyboardInterrupt"

\* for noise_level in config.noise_levels, from position i on
RECURSIVE RunAll(_, _, _)
RunAll(i, chains, attempts) ==
    IF i > Len(ConfiguredLevels) THEN [exit |-> 0, attempts |-> attempts]
    ELSE LET noise_level == ConfiguredLevels[i]
             attempted == Append(attempts, noise_level)
         IN  IF Continues(chains[noise_level])
             THEN RunAll(i + 1, chains, attempted)
             ELSE [exit |-> 130, attempts |-> attempted]

Main(args, skills_dir, chains) ==
    IF Falsy(args.noise) /\ ~args.all THEN [exit |-> 1, attempts |-> << >>]
    ELSE IF ~skills_dir THEN [exit |-> 1, attempts |-> << >>]
    ELSE IF args.all THEN RunAll(1, chains, << >>)
    ELSE [exit |-> CASE chains[args.noise[1]] = "returns" -> 0
                     [] chains[args.noise[1]] = "Exception" -> 1
                     [] OTHER -> 130,
          attempts |-> args.noise]

InitMain ==
    /\ call \in { [op |-> "main", args |-> [noise |-> n, all |-> a], skills_dir |-> d,
                   chains |-> c] :
                    n \in {<< >>} \cup { <<l>> : l \in Levels }, a \in BOOLEAN, d \in BOOLEAN,
                    c \in [Levels -> ChainEnds] }
    /\ returned = NotReturned

MainCall ==
    /\ call.op = "main"
    /\ returned = NotReturned
    /\ returned' = Value(Main(call.args, call.skills_dir, call.chains))
    /\ UNCHANGED call
    /\ UNCHANGED <<corrVars, srVars, reportVars, loadVars, randVars, healVars, costVars>>

NextMain == MainCall

(***************************************************************************)
(* heal_translation                                                        *)
(*                                                                         *)
(* Confidences are in tenths.  For one source text, the overall confidence *)
(* of a translation, whether detect_errors finds an error in it, and the   *)
(* text the correction strategy makes of it are functions of the text.     *)
(***************************************************************************)
MaxHealIterations == 2
HealTexts == {"t1", "t2", "t3"}
ConfLevels == {3, 4, 8}
Thresholds == {4, 7}
NoHealingReport == [status |-> "none"]

\* severity in ["critical", "major"]: overall_confidence < 0.6
CorrectionRecommended(error_detected, overall_confidence) ==
    error_detected /\ overall_confidence < 6

\* improvement = new_confidence.overall_confidence - confidence.overall_confidence
Improvement_NotRelative(new_confidence, overall_confidence) == new_confidence
Improvement(new_confidence, overall_confidence) == new_confidence - overall_confidence

\* _apply_correction
HealApplyCorrection(est, text, overall_confidence) ==
    LET corrected_text == est.strategy[text]
        new_confidence == est.overall[corrected_text]
        improvement == Improvement(new_confidence, overall_confidence)
        correction_applied == corrected_text # text /\ improvement > 0
    IN  [corrected_translation |-> IF correction_applied THEN corrected_text ELSE text,
         correction_applied |-> correction_applied,
         improvement_score |-> improvement,
         final_confidence |-> new_confidence]

\* for iteration in range(self.max_iterations)
MoreIterations_Inclusive(i, max_iterations) == i <= max_iterations
MoreIterations(i, max_iterations) == i < max_iterations

\* if confidence.overall_confidence >= self.confidence_threshold: break
AcceptableQuality_Strict(overall_confidence, confidence_threshold) ==
    overall_confidence > confidence_threshold
AcceptableQuality(overall_confidence, confidence_threshold) ==
    overall_confidence >= confidence_threshold

\* success=correction.improvement_score > 0
Success_NotWorse(correction) == correction.improvement_score >= 0
Success(correction) == correction.improvement_score > 0

\* if correction.correction_applied and correction.improvement_score > 0
Improved(correction) ==
    correction.correction_applied /\ correction.improvement_score > 0

InitHeal ==
    /\ healer \in [confidence_threshold : Thresholds, max_iterations : -1..MaxHealIterations]
    /\ estimator \in [overall : [HealTexts -> ConfLevels],
                      error_detected : [HealTexts -> BOOLEAN],
                      strategy : [HealTexts -> HealTexts]]
    /\ heal_pc = "idle"
    /\ heal_call = "none"
    /\ translated_text = "t1"
    /\ current_text = "t1"
    /\ iteration = 0
    /\ healing_history = << >>
    /\ successful_corrections = 0
    /\ initial_confidence = 0
    /\ healing_report = NoHealingReport

IdleHeal ==
    /\ healer = [confidence_threshold |-> 7, max_iterations |-> 0]
    /\ estimator = [overall |-> [t \in HealTexts |-> 8],
                    error_detected |-> [t \in HealTexts |-> FALSE],
                    strategy |-> [t \in HealTexts |-> t]]
    /\ heal_pc = "idle"
    /\ heal_call = "none"
    /\ translated_text = "t1"
    /\ current_text = "t1"
    /\ iteration = 0
    /\ healing_history = << >>
    /\ successful_corrections = 0
    /\ initial_confidence = 0
    /\ healing_report = NoHealingReport

\* heal_translation, up to the loop.  The estimator ranges over every function
\* of the texts, so the first call takes "t1" without loss of generality.
HealStart ==
    /\ heal_pc \in {"idle", "returned"}
    /\ heal_call \in {"none", "first"}
    /\ \E text \in IF heal_call = "none" THEN {"t1"} ELSE HealTexts :
          /\ translated_text' = text
          /\ current_text' = text
          /\ initial_confidence' = estimator.overall[text]
    /\ healing_history' = << >>
    /\ successful_corrections' = 0
    /\ iteration' = 0
    /\ heal_call' = IF heal_call = "none" THEN "first" ELSE "second"
    /\ heal_pc' = "loop"
    /\ UNCHANGED <<healer, estimator, healing_report>>
    /\ UNCHANGED <<corrVars, srVars, reportVars, loadVars, randVars, callVars, costVars>>

\* one pass through the loop body
HealIterate ==
    /\ heal_pc = "loop"
    /\ MoreIterations(iteration, healer.max_iterations)
    /\ LET confidence == estimator.overall[current_text]
           correction == HealApplyCorrection(estimator, current_text, confidence)
           attempt == [attempt_number |-> iteration + 1,
                       input_text |-> current_text,
                       output_text |-> correction.corrected_translation,
                       confidence_before |-> confidence,
                       confidence_after |-> correction.final_confidence,
                       success |-> Success(correction)]
       IN  IF \/ AcceptableQuality(confidence, healer.confidence_threshold)
              \/ ~CorrectionRecommended(estimator.error_detected[current_text], confidence)
           THEN /\ heal_pc' = "break"
                /\ UNCHANGED <<healing_history, current_text, successful_corrections, iteration>>
           ELSE /\ healing_history' = Append(healing_history, attempt)
                /\ IF Improved(correction)
                   THEN /\ current_text' = correction.corrected_translation
                        /\ successful_corrections' = successful_corrections + 1
                        /\ iteration' = iteration + 1
                        /\ heal_pc' = "loop"
                   ELSE /\ heal_pc' = "break"
                        /\ UNCHANGED <<current_text, successful_corrections, iteration>>
    /\ UNCHANGED <<healer, estimator, heal_call, translated_text, initial_confidence, healing_report>>
    /\ UNCHANGED <<corrVars, srVars, reportVars, loadVars, randVars, callVars, costVars>>

\* heal_translation, after the loop
HealReturn ==
    /\ \/ heal_pc = "break"
       \/ heal_pc = "loop" /\ ~MoreIterations(iteration, healer.max_iterations)
    /\ healing_report' =
           [status |-> "returned",
            final_output |-> current_text,
            total_attempts |-> Len(healing_history),
            successful_corrections |-> successful_corrections,
            initial_confidence |-> initial_confidence,
            final_confidence |-> estimator.overall[current_text],
            healing_history |-> healing_history]
    /\ heal_pc' = "returned"
    /\ UNCHANGED <<healer, estimator, heal_call, translated_text, current_text, iteration,
                   healing_history, successful_corrections, initial_confidence>>
    /\ UNCHANGED <<corrVars, srVars, reportVars, loadVars, randVars, callVars, costVars>>

NextHeal ==
    \/ HealStart
    \/ HealIterate
    \/ HealReturn

(***************************************************************************)
(* Cost tracking                                                           *)
(*                                                                         *)
(* Costs are floats counted in millionths of a dollar, so the price per    *)
(* million tokens is the price per token.                                  *)
(***************************************************************************)
MaxTrackedCalls == 3
MaxRuns == 2
TokenUsages == { [input_tokens |-> 1, output_tokens |-> 1],
                 [input_tokens |-> 1, output_tokens |-> 20] }
TrackedStages == 1..4
RunLevels == { ConfiguredLevels[1], ConfiguredLevels[2] }
FAdd(x, y) == Fl(x + y, 1)

\* _calculate_cost, at the default prices 3.00 and 15.00
CalculateCost(usage) ==
    FAdd(Fl(usage.input_tokens * 3, 1), Fl(usage.output_tokens * 15, 1))

\* APICall(...)
APICall(stage, noise_level, usage) ==
    [stage |-> stage, noise_level |-> noise_level,
     input_tokens |-> usage.input_tokens, output_tokens |-> usage.output_tokens,
     cost |-> CalculateCost(usage)]

\* CostTracker.track_call: the calls of the tracker afterwards
TrackCallOn(tracker, api_call) ==
    IF ~tracker.enabled THEN tracker
    ELSE [tracker EXCEPT !.calls = Append(@, api_call)]

\* sum(call.cost for call in calls), the calls selected by keep
RECURSIVE CostOf(_, _, _, _)
CostOf(calls, keep, i, acc) ==
    IF i > Len(calls) THEN acc
    ELSE CostOf(calls, keep, i + 1, IF i \in keep THEN FAdd(acc, calls[i].cost) ELSE acc)

\* get_total_cost
GetTotalCost(calls) == CostOf(calls, DOMAIN calls, 1, 0)

\* get_total_tokens
GetTotalTokens(calls) ==
    LET input == SumOver(DOMAIN calls, [i \in DOMAIN calls |-> calls[i].input_tokens])
        output == SumOver(DOMAIN calls, [i \in DOMAIN calls |-> calls[i].output_tokens])
    IN  [input |-> input, output |-> output, total |-> input + output]

\* get_cost_by_stage: costs = {1: 0.0, 2: 0.0, 3: 0.0}; costs[call.stage] += call.cost
GetCostByStage(calls) ==
    IF \E i \in DOMAIN calls : calls[i].stage \notin Stages THEN Raise("KeyError")
    ELSE Value([s \in Stages |-> CostOf(calls, {i \in DOMAIN calls : calls[i].stage = s}, 1, 0)])

\* get_cost_by_noise_level
GetCostByNoiseLevel(calls) ==
    [l \in {calls[i].noise_level : i \in DOMAIN calls} |->
        CostOf(calls, {i \in DOMAIN calls : calls[i].noise_level = l}, 1, 0)]

\* get_summary
GetSummary(tracker) ==
    LET by_stage == GetCostByStage(tracker.calls)
    IN  IF by_stage.status = "raised" THEN by_stage
        ELSE Value([total_cost |-> GetTotalCost(tracker.calls),
                    total_calls |-> Len(tracker.calls),
                    total_tokens |-> GetTotalTokens(tracker.calls),
                    cost_by_stage |-> by_stage.value,
                    cost_by_noise_level |-> GetCostByNoiseLevel(tracker.calls)])

\* CostTracker(): enabled is config.cost_tracking_enabled
CostTracker(enabled) == [enabled |-> enabled, calls |-> << >>]

\* after `import pipeline`: cost_tracker = get_cost_tracker() made the global tracker
InitCost ==
    /\ \E enabled \in BOOLEAN : trackers = <<CostTracker(enabled)>>
    /\ global_tracker = 1
    /\ pipeline_tracker = 1
    /\ summary = NotReturned
    /\ chain_runs = 0
    /\ printed = << >>

IdleCost ==
    /\ trackers = <<CostTracker(FALSE)>>
    /\ global_tracker = 1
    /\ pipeline_tracker = 1
    /\ summary = NotReturned
    /\ chain_runs = 0
    /\ printed = << >>

\* get_cost_tracker().track_call(model, stage, noise_level, input_tokens, output_tokens)
TrackCall ==
    /\ Len(trackers[global_tracker].calls) < MaxTrackedCalls
    /\ \E stage \in TrackedStages, noise_level \in RunLevels, usage \in TokenUsages :
          trackers' = [trackers EXCEPT ![global_tracker] =
                          TrackCallOn(@, APICall(stage, noise_level, usage))]
    /\ summary' = NotReturned
    /\ UNCHANGED <<global_tracker, pipeline_tracker, chain_runs, printed>>
    /\ UNCHANGED <<corrVars, srVars, reportVars, loadVars, randVars, callVars, healVars>>

\* get_cost_tracker().get_summary()
GetSummaryCall ==
    /\ summary = NotReturned
    /\ summary' = GetSummary(trackers[global_tracker])
    /\ UNCHANGED <<trackers, global_tracker, pipeline_tracker, chain_runs, printed>>
    /\ UNCHANGED <<corrVars, srVars, reportVars, loadVars, randVars, callVars, healVars>>

NextTracker ==
    \/ TrackCall
    \/ GetSummaryCall

\* reset_cost_tracker: _tracker = CostTracker()
ResetCostTracker ==
    /\ Len(trackers) < MaxRuns
    /\ trackers' = Append(trackers, CostTracker(trackers[1].enabled))
    /\ global_tracker' = Len(trackers) + 1
    /\ UNCHANGED <<pipeline_tracker, summary, chain_runs, printed>>
    /\ UNCHANGED <<corrVars, srVars, reportVars, loadVars, randVars, callVars, healVars>>

\* the calls run_translation_with_skill tracks in a run whose first
\* `completed` stages get a response
RunCalls(noise_level, usages, completed) ==
    [k \in 1..completed |-> APICall(k, noise_level, usages[k])]

\* run_translation_chain(noise_level): each stage that gets a response is
\* tracked on pipeline.cost_tracker; a run of three stages prints the summary
RunTrackedChain ==
    /\ chain_runs < MaxRuns
    /\ chain_runs' = chain_runs + 1
    /\ \E noise_level \in RunLevels, usages \in [Stages -> TokenUsages], completed \in 0..3 :
          LET tracker == trackers[pipeline_tracker]
              run_calls == RunCalls(noise_level, usages, completed)
              after == IF tracker.enabled
                       THEN [tracker EXCEPT !.calls = @ \o run_calls]
                       ELSE tracker
          IN  /\ trackers' = [trackers EXCEPT ![pipeline_tracker] = after]
              /\ printed' =
                    IF completed = 3 /\ tracker.enabled
                    THEN Append(printed,
                            [noise_level |-> noise_level,
                             total_cost |-> GetTotalCost(after.calls),
                             total_tokens |-> GetTotalTokens(after.calls),
                             run_calls |-> run_calls])
                    ELSE printed
    /\ UNCHANGED <<global_tracker, pipeline_tracker, summary>>
    /\ UNCHANGED <<corrVars, srVars, reportVars, loadVars, randVars, callVars, healVars>>

NextPipelineCost ==
    \/ ResetCostTracker
    \/ RunTrackedChain

(***************************************************************************)
(* Specifications: one per group of operations                            *)
(***************************************************************************)
CorrInit == InitCorr /\ IdleSR /\ IdleReport /\ IdleLoad /\ IdleRand /\ IdleCall /\ IdleHeal /\ IdleCost
SpecCorr == CorrInit /\ [][NextCorr]_vars

SRInit == InitSR /\ IdleCorr /\ IdleReport /\ IdleLoad /\ IdleRand /\ IdleCall /\ IdleHeal /\ IdleCost
SpecSR == SRInit /\ [][NextSR]_vars

ReportInit == InitReport /\ IdleCorr /\ IdleSR /\ IdleLoad /\ IdleRand /\ IdleCall /\ IdleHeal /\ IdleCost
SpecReport == ReportInit /\ [][NextReport]_vars

LoadInit == InitLoad /\ IdleCorr /\ IdleSR /\ IdleReport /\ IdleRand /\ IdleCall /\ IdleHeal /\ IdleCost
SpecLoad == LoadInit /\ [][NextLoad]_vars

RandInit == InitRand /\ IdleCorr /\ IdleSR /\ IdleReport /\ IdleLoad /\ IdleCall /\ IdleHeal /\ IdleCost
SpecRand == RandInit /\ [][NextRand]_vars

CIInit == InitCI /\ IdleCorr /\ IdleSR /\ IdleReport /\ IdleLoad /\ IdleRand /\ IdleHeal /\ IdleCost
SpecCI == CIInit /\ [][NextCI]_vars

PairwiseInit == InitPairwise /\ IdleCorr /\ IdleSR /\ IdleReport /\ IdleLoad /\ IdleRand /\ IdleHeal /\ IdleCost
SpecPairwise == PairwiseInit /\ [][NextPairwise]_vars

MIInit == InitMI /\ IdleCorr /\ IdleSR /\ IdleReport /\ IdleLoad /\ IdleRand /\ IdleHeal /\ IdleCost
SpecMI == MIInit /\ [][NextMI]_vars

IBInit == InitIB /\ IdleCorr /\ IdleSR /\ IdleReport /\ IdleLoad /\ IdleRand /\ IdleHeal /\ IdleCost
SpecIB == IBInit /\ [][NextIB]_vars

RegressionInit == InitRegression /\ IdleCorr /\ IdleSR /\ IdleReport /\ IdleLoad /\ IdleRand /\ IdleHeal /\ IdleCost
SpecRegression == RegressionInit /\ [][NextRegression]_vars

CurveInit == InitCurve /\ IdleCorr /\ IdleSR /\ IdleReport /\ IdleLoad /\ IdleRand /\ IdleHeal /\ IdleCost
SpecCurve == CurveInit /\ [][NextCurve]_vars

EmbeddingInit == InitEmbedding /\ IdleCorr /\ IdleSR /\ IdleReport /\ IdleLoad /\ IdleRand /\ IdleHeal /\ IdleCost
SpecEmbedding == EmbeddingInit /\ [][NextEmbedding]_vars

TextInit == InitText /\ IdleCorr /\ IdleSR /\ IdleReport /\ IdleLoad /\ IdleRand /\ IdleHeal /\ IdleCost
SpecText == TextInit /\ [][NextText]_vars

OutputsInit == InitOutputs /\ IdleCorr /\ IdleSR /\ IdleReport /\ IdleLoad /\ IdleRand /\ IdleHeal /\ IdleCost
SpecOutputs == OutputsInit /\ [][NextOutputs]_vars

ChainInit == InitChain /\ IdleCorr /\ IdleSR /\ IdleReport /\ IdleLoad /\ IdleRand /\ IdleHeal /\ IdleCost
SpecChain == ChainInit /\ [][NextChain]_vars

MainInit == InitMain /\ IdleCorr /\ IdleSR /\ IdleReport /\ IdleLoad /\ IdleRand /\ IdleHeal /\ IdleCost
SpecMain == MainInit /\ [][NextMain]_vars

HealInit == InitHeal /\ IdleCorr /\ IdleSR /\ IdleReport /\ IdleLoad /\ IdleRand /\ IdleCall /\ IdleCost
SpecHeal == HealInit /\ [][NextHeal]_vars

TrackerInit == InitCost /\ IdleCorr /\ IdleSR /\ IdleReport /\ IdleLoad /\ IdleRand /\ IdleCall /\ IdleHeal
SpecTracker == TrackerInit /\ [][NextTracker]_vars
SpecPipelineCost == TrackerInit /\ [][NextPipelineCost]_vars
SpecHealFair == SpecHeal /\ WF_vars(HealIterate) /\ WF_vars(HealReturn)

(***************************************************************************)
(* Claims about detect_stochastic_resonance                                *)
(***************************************************************************)
SrLevels == SortedLevels(DOMAIN text_similarities)
SrSnr == SnrValues(text_similarities)
SrCount == Len(SrLevels)
\* position i holds a maximum of the SNR series / the only maximum
IsMaxAt(i) == \A j \in 1..SrCount : ~SnrGreater(SrSnr[j], SrSnr[i])
IsStrictMaxAt(i) == \A j \in 1..SrCount : j # i => SnrGreater(SrSnr[i], SrSnr[j])
\* the index of the maximum SNR: the first position holding a maximum
MaxIndex == CHOOSE i \in 1..SrCount : IsMaxAt(i) /\ \A j \in 1..(i - 1) : ~IsMaxAt(j)

\* C1: with at least 3 noise levels, sr_detected = True only if the index
\* of the maximum SNR is neither the first nor the last index of the
\* noise-ordered series and the maximum SNR is greater than the SNR at
\* zero noise.
C1_DetectedOnlyIfInteriorMax ==
    (sr_result.kind = "result" /\ sr_result.sr_detected) =>
        /\ MaxIndex > 1
        /\ MaxIndex < SrCount
        /\ SnrGreater(SrSnr[MaxIndex], SrSnr[1])

\* C2: for every noise-ordered series with at least 3 levels whose SNR
\* values have a strict maximum at an interior index, sr_detected = True
\* and optimal_noise_level is the noise level at that index.
C2_InteriorMaxIsDetected ==
    (sr_result # NoResult /\ SrCount >= 3) =>
        \A i \in 2..(SrCount - 1) :
            IsStrictMaxAt(i) =>
                /\ sr_result.sr_detected
                /\ sr_result.optimal_noise_level = SrLevels[i]

(***************************************************************************)
(* Claims about _apply_correction                                          *)
(***************************************************************************)
AtLeastRaw ==
    \A i \in 1..Len(p_values) : corrected[i] >= p_values[i]

\* C3: for every list of raw p-values in [0,1], and for both holm and
\* fdr_bh, the corrected value at each position is greater than or equal
\* to the raw p-value at that position.
C3_CorrectedAtLeastRaw ==
    method \in {"holm", "fdr_bh"} => AtLeastRaw

\* C4: for every list of raw p-values in [0,1], the bonferroni-corrected
\* value at each position is greater than or equal to the fdr_bh-corrected
\* value at the same position.
C4_BonferroniAtLeastFdr ==
    method = "fdr_bh" =>
        \A i \in 1..Len(p_values) : Bonferroni(p_values)[i] >= corrected[i]

\* fdr_bh was applied to a full-length list on which it is strictly below
\* bonferroni at one position and equal to it at another non-zero one
C4_Witness ==
    /\ method = "fdr_bh"
    /\ Len(p_values) = MaxM
    /\ \E i \in 1..Len(p_values) : Bonferroni(p_values)[i] > corrected[i]
    /\ \E i \in 1..Len(p_values) :
         p_values[i] > 0 /\ Bonferroni(p_values)[i] = corrected[i]

\* C5: for holm and fdr_bh the corrected p-values are monotone in the raw
\* ones after unsorting: raw p_i <= raw p_j implies
\* corrected_i <= corrected_j.
C5_CorrectedMonotone ==
    method \in {"holm", "fdr_bh"} =>
        \A i, j \in 1..Len(p_values) :
            p_values[i] <= p_values[j] => corrected[i] <= corrected[j]

\* holm was applied to a full-length list with a tie, and its monotonicity
\* loop had to raise an entry
C5_Witness ==
    /\ method = "holm"
    /\ Len(p_values) = MaxM
    /\ \E i, j \in 1..Len(p_values) : i # j /\ p_values[i] = p_values[j]
    /\ \E idx \in ArgSorts(p_values) :
         LET m == Len(p_values)
             hs == [j \in 1..m |-> HolmScale(p_values[idx[j]], m, j - 1)]
         IN  HolmMonotone(hs, m) # hs


(***************************************************************************)
(* Claims about the report generators                                      *)
(***************************************************************************)
Missing == [kind |-> "missing", leaves |-> {}, parts |-> << >>]

\* the entry of rep at a path of one or two keys
Lookup(rep, path) ==
    IF path[1] \notin DOMAIN rep THEN Missing
    ELSE IF Len(path) = 1 THEN rep[path[1]]
    ELSE LET e == rep[path[1]]
         IN  IF e.kind = "section" /\ path[2] \in DOMAIN e.parts
             THEN e.parts[path[2]] ELSE Missing

\* where a generator stores what an analysis returned
ResultsPath(a) ==
    CASE a = "noise_analysis" -> <<"summary">>
      [] a = "pairwise_comparisons" -> <<"pairwise_comparisons", "semantic_distance">>
      [] a = "correlation_analysis" -> <<"correlation_analysis", "results">>
      [] a \in {"linear", "quadratic"} -> <<"regression_analysis", a>>
      [] a \in {"embedding_dimension", "ngram_range"} -> <<"parameter_sensitivity", a>>
      [] a = "cosine_distance" -> <<"bootstrap_analysis", a>>
      [] a = "multi_factor" -> <<"anova_results", a>>
      [] a = "cohens_d_0_vs_50" -> <<"effect_sizes", a>>
      [] OTHER -> <<a>>

\* where a generator stores the message of what an analysis raised
ErrorPath(a) ==
    CASE a = "stochastic_resonance" -> <<"stochastic_resonance_error">>
      [] a = "snr_curve" -> <<"snr_curve_error">>
      [] a = "attention_threshold" -> <<"attention_threshold_error">>
      [] a = "noise_analysis" -> <<"noise_analysis_error">>
      [] a = "information_bottleneck" -> <<"information_bottleneck_error">>
      [] a \in {"linear", "quadratic"} -> <<"regression_analysis", "error">>
      [] a \in {"pairwise_comparisons", "correlation_analysis", "diagnostic_tests"}
            -> <<a, "error">>
      [] OTHER -> ResultsPath(a)

\* the category (try block) an analysis belongs to
Category(a) == IF a \in {"linear", "quadratic"} THEN "regression_analysis" ELSE a

HasResults(a) == Lookup(report, ResultsPath(a)).kind = "results"
HasError(a) == Lookup(report, ErrorPath(a)).kind \in {"error", "error_object"}
CategoryHasResults(c) == \E a \in DOMAIN outcomes : Category(a) = c /\ HasResults(a)
CategoryHasError(c) == \E a \in DOMAIN outcomes : Category(a) = c /\ HasError(a)
FileWritten == DOMAIN report_file # {} /\ DOMAIN report_file = DOMAIN report

\* C6: a report file written by any of the four generators holds none of
\* the tokens NaN, Infinity, -Infinity: every non-finite floating value is
\* written as null.
C6_NonFiniteWrittenAsNull ==
    gen_status = "returned" =>
        \A k \in DOMAIN report_file :
            report_file[k] \cap {"NaN", "Infinity", "-Infinity"} = {}

\* C7: when the analysis of a category raises, the generator returns, the
\* report file is written, and every analysis that returned is in the
\* report with its results.
C7_FailureIsContained ==
    (gen_status # "not called" /\ \E a \in DOMAIN outcomes : outcomes[a].status = "raised")
        => /\ gen_status = "returned"
           /\ FileWritten
           /\ \A b \in DOMAIN outcomes : outcomes[b].status = "ok" => HasResults(b)

\* C8: in a generated report every category has its results or its error
\* field (the nested "error" forms of the comparative and sensitivity
\* reports are counted as error fields), and not both.
C8_ExactlyOneOfResultsOrError ==
    gen_status = "returned" =>
        \A a \in DOMAIN outcomes :
            CategoryHasResults(Category(a)) # CategoryHasError(Category(a))

(***************************************************************************)
(* Claims about the analyzer constructors                                  *)
(***************************************************************************)
Unparsable(file) == file # Absent /\ JsonLoad(file) = "JSONDecodeError"

\* C9: a constructor called when the results file is absent or is not
\* parsable JSON raises AnalysisError.
C9_ConstructorRaisesAnalysisError ==
    \A c \in DOMAIN analyzers :
        (analyzers[c] # "not constructed"
            /\ (results_file = Absent \/ Unparsable(results_file)))
        => analyzers[c] = "AnalysisError"

(***************************************************************************)
(* Claims about pseudo-randomness                                          *)
(***************************************************************************)
\* C10: two invocations of the same analysis on the same loaded results
\* return the same values.
C10_RepeatedInvocationsAgree ==
    \A i, j \in DOMAIN invocations :
        invocations[i].analysis = invocations[j].analysis
            => invocations[i].value = invocations[j].value

\* C11: a call of an analysis leaves self.results as it was and does not
\* change what any analysis returns when it is called next.
C11_CallsDoNotInterfere ==
    [][/\ results' = results
       /\ \A a \in RandomAnalyses :
             Returns(a, results', global_rng') = Returns(a, results, global_rng)]_vars

(***************************************************************************)
(* Claims about confidence intervals                                       *)
(***************************************************************************)
IntervalReturned == returned.status = "returned" /\ call.op \in
    {"bootstrap_analysis", "correlation_analysis", "detect_stochastic_resonance"}

\* the correlation intervals that are defined: Pearson's and Spearman's
\* for four or more points and a coefficient strictly between -1 and 1
DefinedCorrelationInterval ==
    /\ call.test # "Kendall tau"
    /\ call.n >= 4
    /\ call.r.kind = "num"
    /\ call.r.num < call.r.den
    /\ call.r.num > -call.r.den

PairwiseReturned == call.op = "pairwise_comparisons" /\ returned.status = "returned"
PairLevels == DOMAIN call.metric_dict
UnorderedPairs == { p \in SUBSET PairLevels : Cardinality(p) = 2 }
ResultsFor(p) ==
    { k \in DOMAIN returned.value :
        {returned.value[k].group1_name, returned.value[k].group2_name} = p }

Swapped == MutualInformation(call.text2, call.text1)

\* C14: calculate_mutual_information(A, B) and (B, A) report the same
\* mutual_information, up to a thousandth of a bit.
C14_MutualInformationSymmetric ==
    (call.op = "calculate_mutual_information" /\ returned.status = "returned") =>
        /\ Swapped.status = "returned"
        /\ returned.value.mutual_information - Swapped.value.mutual_information \in -1..1

(***************************************************************************)
(* Claims about information_bottleneck_analysis                            *)
(***************************************************************************)
BottleneckReturned ==
    call.op = "information_bottleneck_analysis" /\ returned.status = "returned"
\* optimal_beta is relevance_preserved / compression_rate, capped at 100
CappedRatio ==
    LET rate == returned.value.compression_rate
        relevance == returned.value.relevance_preserved
        beta == returned.value.optimal_beta
    IN  /\ beta.kind = "num"
        /\ rate.den = relevance.den
        /\ IF relevance.num > 100 * rate.num
           THEN beta.num = 100 * beta.den
           ELSE beta.num * rate.num = relevance.num * beta.den

\* C15: information_bottleneck_analysis reports optimal_beta = +infinity
\* whenever compression_rate is 0, and relevance_preserved /
\* compression_rate capped at 100 when compression_rate is above 0.
C15_InfiniteBetaAtZeroRate ==
    BottleneckReturned =>
        IF returned.value.compression_rate.num = 0
        THEN returned.value.optimal_beta.kind = "inf"
        ELSE CappedRatio

\* C15 as amended: information_bottleneck_analysis reports optimal_beta =
\* 100 whenever compression_rate is 0, and relevance_preserved /
\* compression_rate capped at 100 when compression_rate is above 0.
C15_BetaCappedAtZeroRate ==
    BottleneckReturned =>
        IF returned.value.compression_rate.num = 0
        THEN returned.value.optimal_beta = Frac(100, 1)
        ELSE CappedRatio

\* C15 witness: information_bottleneck_analysis has returned with a
\* compression_rate of 0 for an original text of two different words.
C15_Witness ==
    /\ BottleneckReturned
    /\ returned.value.compression_rate.num = 0
    /\ returned.value.relevance_preserved.num > 0

\* information_bottleneck_analysis has returned with a compression_rate
\* above 0 and a ratio above the cap
BottleneckCapReached ==
    /\ BottleneckReturned
    /\ returned.value.compression_rate.num > 0
    /\ returned.value.relevance_preserved.num > 100 * returned.value.compression_rate.num

(***************************************************************************)
(* Claims about regression_analysis                                        *)
(***************************************************************************)
RegressionDone == call.op = "regression_analysis" /\ returned # NotReturned
RegressionRSquared ==
    LET noise_levels == SortedLevels(DOMAIN call.response_dict)
    IN  RSquared(noise_levels,
                 [i \in DOMAIN noise_levels |-> call.response_dict[noise_levels[i]]],
                 call.polynomial_degree)

\* C16: for every input whose fitted polynomial has R^2 = 1,
\* regression_analysis does not raise: it returns f_statistic +infinity and
\* p_value 0.
C16_PerfectFitReturnsInfiniteF ==
    (RegressionDone /\ call.response_dict # << >> /\ RegressionRSquared = "one") =>
        /\ returned.status = "returned"
        /\ returned.value.f_statistic = "inf"
        /\ returned.value.p_value = "zero"

\* regression_analysis has returned for points that lie on one line
\* although there are more of them than a line has coefficients
PerfectFitOfManyPoints ==
    /\ RegressionDone
    /\ Cardinality(DOMAIN call.response_dict) > call.polynomial_degree + 1
    /\ \E l \in DOMAIN call.response_dict : call.response_dict[l] # 0
    /\ returned.status = "returned"
    /\ returned.value.r_squared = "one"

(***************************************************************************)
(* Claims about analyze_snr_curve                                          *)
(***************************************************************************)
CurveReturned == call.op = "analyze_snr_curve" /\ returned.status = "returned"
CurveSnr == returned.value.snr_values
CurveCount == Len(CurveSnr)
\* no value of the series is above the one at position i (1-based)
CurveMaxAt(i) == \A j \in 1..CurveCount : ~SnrGreater(CurveSnr[j], CurveSnr[i])
\* the first position holding the maximum, which is what np.argmax returns
CurveMaxIndex ==
    CHOOSE i \in 1..CurveCount : CurveMaxAt(i) /\ \A j \in 1..(i - 1) : ~CurveMaxAt(j)
ClassifiedByMaxIndex ==
    /\ returned.value.curve_type = "resonant"
          <=> (CurveMaxIndex > 1 /\ CurveMaxIndex < CurveCount)
    /\ returned.value.curve_type = "monotonic_decreasing" <=> CurveMaxIndex = 1
    /\ returned.value.curve_type = "monotonic_increasing" <=> CurveMaxIndex = CurveCount

\* C19: analyze_snr_curve classifies the curve as resonant exactly when the
\* maximum SNR is at an interior index, as monotonic_decreasing exactly
\* when it is at the first index, and as monotonic_increasing exactly when
\* it is at the last index.
C19_ClassifiedByMaxIndex == CurveReturned => ClassifiedByMaxIndex

\* C19 as amended: the same for every series of at least two noise levels,
\* the index of the maximum being the first one that holds it.
C19_ClassifiedByMaxIndexOfTwoOrMore ==
    (CurveReturned /\ CurveCount >= 2) => ClassifiedByMaxIndex

\* C19 witness: analyze_snr_curve has classified a series of three or more
\* levels whose maximum is at the last index and nowhere else.
C19_Witness ==
    /\ CurveReturned
    /\ CurveCount >= 3
    /\ \A j \in 1..(CurveCount - 1) : SnrGreater(CurveSnr[CurveCount], CurveSnr[j])
    /\ returned.value.curve_type = "monotonic_increasing"

(***************************************************************************)
(* Claims about get_local_embedding                                        *)
(***************************************************************************)
EmptyEmbeddingDone ==
    call.op = "get_local_embedding" /\ call.texts = << >> /\ returned # NotReturned

\* C17: get_local_embedding called with an empty sequence of texts fails
\* with an AnalysisError.
C17_EmptyRaisesAnalysisError ==
    EmptyEmbeddingDone => returned = Raise("AnalysisError")

\* C17 as amended: get_local_embedding called with an empty sequence of
\* texts fails with a ValueError.
C17_EmptyRaisesValueError ==
    EmptyEmbeddingDone => returned = Raise("ValueError")

\* C17 witness: get_local_embedding has been called with an empty sequence
\* and has raised.
C17_Witness == EmptyEmbeddingDone /\ returned.status = "raised"

(***************************************************************************)
(* Claims about calculate_text_similarity and calculate_word_overlap       *)
(***************************************************************************)
SameUpToCase ==
    /\ Len(call.text1) = Len(call.text2)
    /\ \A i \in DOMAIN call.text1 :
          \/ call.text1[i] = call.text2[i]
          \/ {call.text1[i], call.text2[i]} = {"a", "A"}
TextCallReturned ==
    /\ call.op \in {"calculate_text_similarity", "calculate_word_overlap"}
    /\ returned.status = "returned"
IsOne(x) == x.kind = "num" /\ x.num = x.den
HasWord(text) == \E i \in DOMAIN text : text[i] # " "

\* C18: for any two texts that are identical up to letter case,
\* calculate_word_overlap and calculate_text_similarity both return 1.0.
C18_SameUpToCaseGivesOne ==
    (TextCallReturned /\ SameUpToCase) => IsOne(returned.value)

\* C18 as amended: for any two texts that are identical up to letter case,
\* calculate_text_similarity returns 1.0, and calculate_word_overlap
\* returns 1.0 when the texts contain a word and 0.0 when they contain none.
C18_SameUpToCaseGivesOneUnlessNoWord ==
    (TextCallReturned /\ SameUpToCase) =>
        IF call.op = "calculate_word_overlap" /\ ~HasWord(call.text1)
        THEN returned.value = Frac(0, 1)
        ELSE IsOne(returned.value)

\* C18 witness: calculate_word_overlap has returned for two texts with a
\* word that differ in letter case only.
C18_Witness ==
    /\ TextCallReturned
    /\ call.op = "calculate_word_overlap"
    /\ SameUpToCase
    /\ call.text1 # call.text2
    /\ HasWord(call.text1)

(***************************************************************************)
(* Claims about load_final_outputs                                         *)
(***************************************************************************)
OutputsDone == call.op = "load_final_outputs" /\ returned # NotReturned
Existing == { l \in Levels : call.files[l] # Absent }
CannotBeRead == { l \in Existing : call.files[l] \in {Unreadable, Undecodable} }
FirstThatCannotBeRead == CHOOSE l \in CannotBeRead : \A o \in CannotBeRead : l <= o
MissingReported ==
    { returned.value.missing_files[i] : i \in DOMAIN returned.value.missing_files }
        = Levels \ Existing
\* out is content without the blanks at its two ends
StrippedOf(out, content) ==
    /\ out = << >> \/ (out[1] # " " /\ out[Len(out)] # " ")
    /\ \E i \in 1..(Len(content) + 1) : \E j \in 0..Len(content) :
          /\ out = SubSeq(content, i, j)
          /\ \A k \in DOMAIN content : (k < i \/ k > j) => content[k] = " "

ChainDone == call.op = "run_translation_chain" /\ returned # NotReturned
ChainEvents == returned.events
InvokeAt(i) == ChainEvents[i].type = "invoke"
WriteAt(i) == ChainEvents[i].type = "write"
StageFails(k) == call.stages[k].kind = "raises"

\* C21: the stages run in the order 1, 2, 3; each stage's input is the
\* previous stage's output; each stage's output file is written before the
\* next stage is invoked; and if stage k fails no output file of stage k or
\* of a later stage is written in that run.
C21_StagesInOrder ==
    ChainDone =>
        /\ \A i, j \in DOMAIN ChainEvents :
              (InvokeAt(i) /\ InvokeAt(j) /\ i < j) => ChainEvents[i].stage < ChainEvents[j].stage
        /\ \A j \in DOMAIN ChainEvents :
              (InvokeAt(j) /\ ChainEvents[j].stage > 1) =>
                 \E i \in 1..(j - 1) :
                    /\ WriteAt(i)
                    /\ ChainEvents[i].stage = ChainEvents[j].stage - 1
                    /\ ChainEvents[i].text = Append(ChainEvents[j].text, "\n")
                    /\ \E h \in 1..(i - 1) :
                          InvokeAt(h) /\ ChainEvents[h].stage = ChainEvents[i].stage
        /\ \A k \in Stages :
              ((\E j \in DOMAIN ChainEvents : InvokeAt(j) /\ ChainEvents[j].stage = k)
                  /\ StageFails(k)) =>
                 \A i \in DOMAIN ChainEvents : WriteAt(i) => ChainEvents[i].stage < k

\* C21 witness: a run in which stage 1 answered, its file was written with
\* a stripped response, and stage 2 failed.
C21_Witness ==
    /\ ChainDone
    /\ call.stages[1].text # Strip(call.stages[1].text)
    /\ StageFails(2)
    /\ Len(ChainEvents) = 3

(***************************************************************************)
(* Claims about main                                                       *)
(***************************************************************************)
MainDone == call.op = "main" /\ returned.status = "returned"
Attempts == returned.value.attempts
Interrupted == { i \in DOMAIN ConfiguredLevels : call.chains[ConfiguredLevels[i]] = "KeyboardInterrupt" }
FirstInterrupted == CHOOSE i \in Interrupted : \A j \in Interrupted : i <= j

\* C22: with --all, main attempts run_translation_chain exactly once for
\* every configured noise level, in configured order, and a failure raised
\* at one level does not prevent the attempts at the following levels.
C22_AllLevelsAttempted ==
    (MainDone /\ call.args.all) => Attempts = ConfiguredLevels

\* C22 as amended: with --all and the skills directory in place, the
\* attempts are the configured levels in order, once each, whatever
\* Exception a level raises; a KeyboardInterrupt at a level ends the run
\* after that level's attempt.
C22_AllLevelsAttemptedUnlessInterrupted ==
    (MainDone /\ call.args.all) =>
        IF ~call.skills_dir THEN Attempts = << >>
        ELSE IF Interrupted = {} THEN Attempts = ConfiguredLevels
        ELSE Attempts = SubSeq(ConfiguredLevels, 1, FirstInterrupted)

\* C22 witness: --all, a level that raised an Exception, and every level
\* attempted.
C22_Witness ==
    /\ MainDone
    /\ call.args.all
    /\ \E l \in Levels : l # ConfiguredLevels[Len(ConfiguredLevels)] /\ call.chains[l] = "Exception"
    /\ Attempts = ConfiguredLevels

\* C23: for every LEVEL in {0, 10, 20, 25, 30, 40, 50}, invoking main with
\* --noise LEVEL runs the translation chain for that level.
C23_NoiseLevelIsRun ==
    (MainDone /\ call.args.noise # << >> /\ call.skills_dir) =>
        \E i \in DOMAIN Attempts : Attempts[i] = call.args.noise[1]

(***************************************************************************)
(* heal_translation                                                        *)
(***************************************************************************)
HealReturned == heal_pc = "returned"
AttemptsAllowed == IF healer.max_iterations > 0 THEN healer.max_iterations ELSE 0
SuccessfulAttempts(history) == {i \in 1..Len(history) : history[i].success}

\* C24 as stated: every call of heal_translation returns, and the report it
\* returns has total_attempts <= max_iterations.
C24_AttemptsWithinMaxIterations ==
    /\ [](HealReturned => healing_report.total_attempts <= healer.max_iterations)
    /\ (heal_pc = "loop") ~> HealReturned

\* C24, amended: every call of heal_translation returns, and the report it
\* returns has total_attempts <= max(max_iterations, 0).
C24_AttemptsWithinNonNegativeMaxIterations ==
    /\ [](HealReturned => healing_report.total_attempts <= AttemptsAllowed)
    /\ (heal_pc = "loop") ~> HealReturned

\* C24 witness: a call that used every iteration it was allowed.
C24_Witness ==
    /\ HealReturned
    /\ healer.max_iterations = MaxHealIterations
    /\ healing_report.total_attempts = healer.max_iterations

\* C25: inside the loop the current text is only replaced by a text of strictly
\* higher overall confidence; a returned report has final_confidence >=
\* initial_confidence, and final_output is the input translation when
\* successful_corrections = 0.
C25_OnlyImprovingReplacements ==
    /\ [][heal_pc = "loop" /\ current_text' # current_text
            => estimator.overall[current_text'] > estimator.overall[current_text]]_vars
    /\ [](HealReturned =>
            /\ healing_report.final_confidence >= healing_report.initial_confidence
            /\ healing_report.successful_corrections = 0
                  => healing_report.final_output = translated_text)

\* C25 witness: a returned call in which one correction replaced the text and a
\* later one, which would have lowered the confidence, did not.
C25_Witness ==
    /\ HealReturned
    /\ healing_report.successful_corrections = 1
    /\ healing_report.total_attempts = 2
    /\ healing_report.final_output # translated_text
    /\ healing_report.healing_history[2].confidence_after
          < healing_report.healing_history[2].confidence_before

\* C26: when the input translation's overall confidence is already at or above
\* confidence_threshold, the report has total_attempts = 0,
\* successful_corrections = 0 and final_output equal to the input translation.
C26_NoAttemptWhenAcceptable ==
    HealReturned /\ estimator.overall[translated_text] >= healer.confidence_threshold
       => /\ healing_report.total_attempts = 0
          /\ healing_report.successful_corrections = 0
          /\ healing_report.final_output = translated_text

\* C26 witness: a returned call on a translation exactly at the threshold, in
\* which detect_errors finds an error that a correction would have improved.
C26_Witness ==
    /\ HealReturned
    /\ healer.max_iterations > 0
    /\ estimator.overall[translated_text] = healer.confidence_threshold
    /\ CorrectionRecommended(estimator.error_detected[translated_text],
                             estimator.overall[translated_text])
    /\ Improved(HealApplyCorrection(estimator, translated_text, estimator.overall[translated_text]))

\* C30: the loop of a call starts with an empty healing history, so the
\* attempts of a report are those of its own call; in a returned report
\* successful_corrections <= total_attempts <= successful_corrections + 1, and
\* successful_corrections is the number of attempts flagged success.
C30_HistoryOfThisCall ==
    /\ heal_pc = "loop" /\ iteration = 0 => healing_history = << >>
    /\ HealReturned =>
          LET history == healing_report.healing_history
          IN  /\ \A i \in 1..Len(history) : history[i].attempt_number = i
              /\ history # << >> => history[1].input_text = translated_text
              /\ healing_report.total_attempts = Len(history)
              /\ healing_report.successful_corrections <= healing_report.total_attempts
              /\ healing_report.total_attempts <= healing_report.successful_corrections + 1
              /\ healing_report.successful_corrections = Cardinality(SuccessfulAttempts(history))

\* C30 witness: a second call on the same translator has returned with a
\* successful attempt followed by a failed one.
C30_Witness ==
    /\ HealReturned
    /\ heal_call = "second"
    /\ healing_report.successful_corrections = 1
    /\ healing_report.total_attempts = 2

(***************************************************************************)
(* Cost tracking                                                           *)
(***************************************************************************)
\* C27: whenever the pipeline tracks a call, the call is recorded in the
\* tracker that get_cost_tracker() returns at that moment, also after
\* reset_cost_tracker().
C27_TrackedInGlobalTracker ==
    [][\A i \in 1..Len(trackers) :
          trackers'[i].calls # trackers[i].calls => i = global_tracker]_vars

\* C28: every 'Cost for this run' line shows the cost and the token totals
\* summed over the API calls of its own run only.
C28_PrintedCostIsOfThisRun ==
    \A i \in DOMAIN printed :
        /\ printed[i].total_cost = GetTotalCost(printed[i].run_calls)
        /\ printed[i].total_tokens = GetTotalTokens(printed[i].run_calls)

\* sum(costs.values()) of a breakdown, its keys taken in the order keys
RECURSIVE SumValues(_, _, _, _)
SumValues(costs, keys, i, acc) ==
    IF i > Len(keys) THEN acc
    ELSE SumValues(costs, keys, i + 1, FAdd(acc, costs[keys[i]]))

\* C29: get_summary on an enabled tracker returns; its total_cost is the sum
\* of the cost_by_stage values and the sum of the cost_by_noise_level values,
\* and its total_calls is the number of calls tracked.
C29_SummaryTotalsAgree ==
    summary # NotReturned /\ trackers[global_tracker].enabled
       => /\ summary.status = "returned"
          /\ summary.value.total_cost
                = SumValues(summary.value.cost_by_stage, <<1, 2, 3>>, 1, 0)
          /\ summary.value.total_cost
                = SumValues(summary.value.cost_by_noise_level,
                            SortedLevels(DOMAIN summary.value.cost_by_noise_level), 1, 0)
          /\ summary.value.total_calls = Len(trackers[global_tracker].calls)

=============================================================================
